---------------------------- MODULE Spec2Model ----------------------------
(***************************************************************************)
(* The structured-text extractors of task-to-code:                         *)
(*   ClaudeCodeGenerator._parse_code_response   (src/src/claude_generator) *)
(*   ClaudeCodeGenerator._parse_test_response   (src/src/claude_generator) *)
(* Each invocation is an activation record (its arguments, its locals and  *)
(* its position in the function); one action runs one step of one          *)
(* invocation: entering the function, one iteration of the "for line in    *)
(* lines" loop, or the code after the loop up to the return.               *)
(*                                                                         *)
(* Text is modelled by TLA+ strings, character by character.  The TLA+     *)
(* lexer admits no backquote inside a string literal, so the backquote     *)
(* (U+0060) is written "~" throughout: the fence token of the source,      *)
(* three backquotes, is "~~~" here.  Likewise the bullet glyph (U+2022)    *)
(* is written "@".                                                         *)
(***************************************************************************)
EXTENDS Integers, Sequences, FiniteSets, TLC

\* frames: the activation record of every invocation
\* given:  what the text of each invocation was rendered from (never changes)
VARIABLES frames, given

vars == <<frames, given>>

(***************************************************************************)
(* Bounds of the model.                                                    *)
(***************************************************************************)
\* longest input, in lines, of the general specifications
MaxLines == 4

\* most file blocks of a rendered response
MaxBlocks == 2

\* longest content, in lines, of the round trip
MaxContent == 3

\* most lines after the trigger line of a description
MaxZone == 3

\* longest text, in lines, of each of two parses run together
MaxPair == 2

(***************************************************************************)
(* Python values.                                                          *)
(***************************************************************************)
\* None: no str.strip() result starts with a blank, so no path equals it
None == " None"

\* bool(x) that tells None only from a str
Truthy_NotNone(x) == x # None

\* bool(x) of a str or None
Truthy(x) == x # None /\ x # ""

\* string.whitespace without "\n" (a line of str.split('\n') holds none)
Whitespace == {" ", "\t", "\r", "\f"}

\* s[i] of a str, 1-based
Char(s, i) == SubSeq(s, i, i)

\* s[i:] of a str, 1-based
From(s, i) == IF i > Len(s) THEN "" ELSE SubSeq(s, i, Len(s))

\* str.startswith
startswith(s, prefix) ==
    Len(s) >= Len(prefix) /\ SubSeq(s, 1, Len(prefix)) = prefix

RECURSIVE lstrip(_)
lstrip(s) ==
    IF Len(s) > 0 /\ Char(s, 1) \in Whitespace THEN lstrip(From(s, 2)) ELSE s

RECURSIVE rstrip(_)
rstrip(s) ==
    IF Len(s) > 0 /\ Char(s, Len(s)) \in Whitespace
    THEN rstrip(SubSeq(s, 1, Len(s) - 1))
    ELSE s

\* str.strip()
strip(s) == rstrip(lstrip(s))

\* s[i:j] of a str, 1-based and both ends included
Slice(s, i, j) == IF i > j THEN "" ELSE SubSeq(s, i, j)

\* str.find(sub, start) of a non-empty sub, 1-based; 0 when absent
find(s, sub, start) ==
    LET hits == {k \in start..(Len(s) - Len(sub) + 1) :
                     SubSeq(s, k, k + Len(sub) - 1) = sub}
    IN  IF hits = {} THEN 0 ELSE CHOOSE k \in hits : \A j \in hits : k <= j

RECURSIVE splitFrom(_, _, _)
\* the pieces of s[start:]
splitFrom(s, sep, start) ==
    LET k == find(s, sep, start)
    IN  IF k = 0 THEN <<Slice(s, start, Len(s))>>
        ELSE <<Slice(s, start, k - 1)>> \o splitFrom(s, sep, k + Len(sep))

\* str.split(sep), sep non-empty
split(s, sep) == splitFrom(s, sep, 1)

RECURSIVE join(_, _)
\* sep.join(seq)
join(sep, seq) ==
    IF Len(seq) = 0 THEN ""
    ELSE IF Len(seq) = 1 THEN seq[1]
    ELSE seq[1] \o sep \o join(sep, Tail(seq))

RECURSIVE replace(_, _, _)
\* str.replace(old, new), old non-empty: every occurrence, left to right
replace(s, old, new) ==
    LET k == find(s, old, 1)
    IN  IF k = 0 THEN s
        ELSE Slice(s, 1, k - 1) \o new
             \o replace(From(s, k + Len(old)), old, new)

UpperCase == "ABCDEFGHIJKLMNOPQRSTUVWXYZ"
LowerCase == "abcdefghijklmnopqrstuvwxyz"

\* the characters of a str, as a set
Chars(s) == {Char(s, k) : k \in 1..Len(s)}

\* the lower-case letter of every upper-case letter
LowerOf ==
    [c \in Chars(UpperCase) |->
        Char(LowerCase, CHOOSE k \in 1..Len(UpperCase) : Char(UpperCase, k) = c)]

lowerChar(c) == IF c \in DOMAIN LowerOf THEN LowerOf[c] ELSE c

RECURSIVE lowerFrom(_, _)
lowerFrom(s, k) ==
    IF k > Len(s) THEN "" ELSE lowerChar(Char(s, k)) \o lowerFrom(s, k + 1)

\* str.lower()
lower(s) == lowerFrom(s, 1)

\* str.rfind(c) of a one-character c, 1-based; 0 when absent
rfind(s, c) ==
    LET hits == {k \in 1..Len(s) : Char(s, k) = c}
    IN  IF hits = {} THEN 0 ELSE CHOOSE k \in hits : \A j \in hits : j <= k

\* os.path.splitext(p)[1]: the text from the last dot of the last path
\* component, unless only dots precede it in that component
splitext(p) ==
    LET sepIndex == rfind(p, "/")
        dotIndex == rfind(p, ".")
    IN  IF dotIndex > sepIndex
           /\ \E k \in (sepIndex + 1)..(dotIndex - 1) : Char(p, k) # "."
        THEN From(p, dotIndex)
        ELSE ""

\* dict.get(key, default)
get(dict, key, default) == IF key \in DOMAIN dict THEN dict[key] ELSE default

(***************************************************************************)
(* ClaudeCodeGenerator._detect_language_from_path                          *)
(***************************************************************************)
extension_map ==
    [e \in {".py", ".js", ".ts", ".java", ".cpp", ".c", ".cs", ".php", ".rb",
            ".go", ".rs", ".swift", ".kt", ".scala", ".R", ".sh", ".sql",
            ".html", ".css", ".scss", ".yaml", ".yml", ".json", ".xml", ".md"} |->
        CASE e = ".py" -> "python"
          [] e = ".js" -> "javascript"
          [] e = ".ts" -> "typescript"
          [] e = ".java" -> "java"
          [] e = ".cpp" -> "cpp"
          [] e = ".c" -> "c"
          [] e = ".cs" -> "csharp"
          [] e = ".php" -> "php"
          [] e = ".rb" -> "ruby"
          [] e = ".go" -> "go"
          [] e = ".rs" -> "rust"
          [] e = ".swift" -> "swift"
          [] e = ".kt" -> "kotlin"
          [] e = ".scala" -> "scala"
          [] e = ".R" -> "r"
          [] e = ".sh" -> "bash"
          [] e = ".sql" -> "sql"
          [] e = ".html" -> "html"
          [] e = ".css" -> "css"
          [] e = ".scss" -> "scss"
          [] e = ".yaml" -> "yaml"
          [] e = ".yml" -> "yaml"
          [] e = ".json" -> "json"
          [] e = ".xml" -> "xml"
          [] e = ".md" -> "markdown"]

_detect_language_from_path(file_path) ==
    get(extension_map, lower(splitext(file_path)), "text")


(***************************************************************************)
(* Literals of the two response parsers.                                   *)
(***************************************************************************)
\* the per-file marker, '### File:'
FileMarker == "### File:"

\* the fence token: three backquotes, each written "~"
Fence == "~~~"

\* FileEntry with the content trimmed
FileEntry_ContentStripped(current_file, current_content) ==
    [path |-> current_file,
     content |-> strip(join("\n", current_content)),
     language |-> _detect_language_from_path(current_file)]

\* one entry of result['files'] / result['test_files']
FileEntry(current_file, current_content) ==
    [path |-> current_file,
     content |-> join("\n", current_content),
     language |-> _detect_language_from_path(current_file)]

(***************************************************************************)
(* ClaudeCodeGenerator._parse_code_response                                *)
(***************************************************************************)
\* CodeDetectSection with the notes branch setting the analysis tag
CodeDetectSection_NotesAsAnalysis(current_section, line_stripped) ==
    IF startswith(line_stripped, "## Analysis") THEN "analysis"
    ELSE IF startswith(line_stripped, "## Files to Create/Modify") THEN "files"
    ELSE IF startswith(line_stripped, "## Implementation Notes") THEN "analysis"
    ELSE IF startswith(line_stripped, "## Dependencies") THEN "dependencies"
    ELSE current_section

\* the if/elif chain "Detect sections": the tag the line switches to, or
\* current_section itself when the line is no section header
CodeDetectSection(current_section, line_stripped) ==
    IF startswith(line_stripped, "## Analysis") THEN "analysis"
    ELSE IF startswith(line_stripped, "## Files to Create/Modify") THEN "files"
    ELSE IF startswith(line_stripped, "## Implementation Notes") THEN "notes"
    ELSE IF startswith(line_stripped, "## Dependencies") THEN "dependencies"
    ELSE current_section

\* whether one of the four branches of "Detect sections" is taken (continue)
CodeIsSectionHeader(line_stripped) ==
    \/ startswith(line_stripped, "## Analysis")
    \/ startswith(line_stripped, "## Files to Create/Modify")
    \/ startswith(line_stripped, "## Implementation Notes")
    \/ startswith(line_stripped, "## Dependencies")

\* CodeSavePreviousFile that forgets the previous file
CodeSavePreviousFile_Forgotten(files, current_file, current_content) == files

\* "Save previous file if exists": the file list after a '### File:' line
CodeSavePreviousFile(files, current_file, current_content) ==
    IF Truthy(current_file)
    THEN Append(files, FileEntry(current_file, current_content))
    ELSE files

\* "Start new file": current_file after a '### File:' line
CodeStartNewFile(line_stripped) == strip(replace(line_stripped, FileMarker, ""))

\* CodeHandleCodeBlock that skips a fence only before the first content line
CodeHandleCodeBlock_OpeningOnly(current_content, line, line_stripped) ==
    IF startswith(line_stripped, Fence) /\ Len(current_content) = 0
    THEN current_content
    ELSE Append(current_content, line)

\* "Handle code blocks": current_content after a line of a file in progress
CodeHandleCodeBlock(current_content, line, line_stripped) ==
    IF startswith(line_stripped, Fence) /\ Len(current_content) = 0
    THEN current_content
    ELSE IF startswith(line_stripped, Fence) /\ Len(current_content) > 0
         THEN current_content
         ELSE Append(current_content, line)

\* CodeAppendProse that keeps the last line only
CodeAppendProse_Overwrite(buffer, line) == line \o "\n"

\* "Handle other sections": result['analysis'] / result['notes'] after a
\* line of the section
CodeAppendProse(buffer, line) == buffer \o line \o "\n"

\* the dependencies branch of "Handle other sections", without the test
\* for '#'
CodeDependencies_KeepComments(dependencies, line_stripped) ==
    IF Truthy(line_stripped)
    THEN Append(dependencies, line_stripped)
    ELSE dependencies

\* the dependencies branch of "Handle other sections"
CodeDependencies(dependencies, line_stripped) ==
    IF Truthy(line_stripped) /\ ~startswith(line_stripped, "#")
    THEN Append(dependencies, line_stripped)
    ELSE dependencies

\* CodeLastFile without the test of current_content
CodeLastFile_NoContentCheck(files, current_file, current_content) ==
    IF Truthy(current_file)
    THEN Append(files, FileEntry(current_file, current_content))
    ELSE files

\* "Don't forget the last file": the file list the function returns
CodeLastFile(files, current_file, current_content) ==
    IF Truthy(current_file) /\ Len(current_content) > 0
    THEN Append(files, FileEntry(current_file, current_content))
    ELSE files

\* CodeEntry with a default section: prose before any header is kept
CodeEntry_DefaultSection(f) ==
    [fn |-> f.fn, pc |-> "loop",
     response_content |-> f.response_content, task_data |-> f.task_data,
     result |-> [task_key |-> get(f.task_data, "key", "unknown"),
                 files |-> <<>>, analysis |-> "", notes |-> "",
                 dependencies |-> <<>>],
     lines |-> split(f.response_content, "\n"),
     scanned |-> 0,
     current_section |-> "analysis",
     current_file |-> None,
     current_content |-> <<>>]

\* the locals after the statements that precede the loop
CodeEntry(f) ==
    [fn |-> f.fn, pc |-> "loop",
     response_content |-> f.response_content, task_data |-> f.task_data,
     result |-> [task_key |-> get(f.task_data, "key", "unknown"),
                 files |-> <<>>, analysis |-> "", notes |-> "",
                 dependencies |-> <<>>],
     lines |-> split(f.response_content, "\n"),
     scanned |-> 0,
     current_section |-> None,
     current_file |-> None,
     current_content |-> <<>>]

\* one iteration of "for line in lines"
CodeLoopBody(f, line) ==
    LET line_stripped == strip(line)
        g == [f EXCEPT !.scanned = @ + 1]
    IN  IF CodeIsSectionHeader(line_stripped)
        THEN [g EXCEPT !.current_section =
                            CodeDetectSection(f.current_section, line_stripped)]
        ELSE IF f.current_section = "files"
                /\ startswith(line_stripped, FileMarker)
        THEN [g EXCEPT !.result.files =
                            CodeSavePreviousFile(@, f.current_file,
                                                 f.current_content),
                       !.current_file = CodeStartNewFile(line_stripped),
                       !.current_content = <<>>]
        ELSE IF f.current_section = "files" /\ Truthy(f.current_file)
        THEN [g EXCEPT !.current_content =
                            CodeHandleCodeBlock(@, line, line_stripped)]
        ELSE IF f.current_section = "analysis"
        THEN [g EXCEPT !.result.analysis = CodeAppendProse(@, line)]
        ELSE IF f.current_section = "notes"
        THEN [g EXCEPT !.result.notes = CodeAppendProse(@, line)]
        ELSE IF f.current_section = "dependencies"
        THEN [g EXCEPT !.result.dependencies =
                            CodeDependencies(@, line_stripped)]
        ELSE g

\* the statements after the loop
CodeExit(f) ==
    [f EXCEPT !.pc = "returned",
              !.result.files =
                  CodeLastFile(@, f.current_file, f.current_content)]

(***************************************************************************)
(* ClaudeCodeGenerator._parse_test_response                                *)
(***************************************************************************)
\* the if/elif chain "Detect sections", with the run instructions header
\* opening the strategy section
TestDetectSection_RunAsStrategy(current_section, line_stripped) ==
    IF startswith(line_stripped, "## Test Strategy") THEN "strategy"
    ELSE IF startswith(line_stripped, "## Test Files") THEN "files"
    ELSE IF startswith(line_stripped, "## Test Dependencies") THEN "dependencies"
    ELSE IF startswith(line_stripped, "## Running the Tests") THEN "strategy"
    ELSE current_section

\* the if/elif chain "Detect sections"
TestDetectSection(current_section, line_stripped) ==
    IF startswith(line_stripped, "## Test Strategy") THEN "strategy"
    ELSE IF startswith(line_stripped, "## Test Files") THEN "files"
    ELSE IF startswith(line_stripped, "## Test Dependencies") THEN "dependencies"
    ELSE IF startswith(line_stripped, "## Running the Tests") THEN "instructions"
    ELSE current_section

\* whether one of the four branches of "Detect sections" is taken (continue)
TestIsSectionHeader(line_stripped) ==
    \/ startswith(line_stripped, "## Test Strategy")
    \/ startswith(line_stripped, "## Test Files")
    \/ startswith(line_stripped, "## Test Dependencies")
    \/ startswith(line_stripped, "## Running the Tests")

\* "Save previous file if exists"
TestSavePreviousFile(test_files, current_file, current_content) ==
    IF Truthy(current_file)
    THEN Append(test_files, FileEntry(current_file, current_content))
    ELSE test_files

\* "Start new file"
TestStartNewFile(line_stripped) == strip(replace(line_stripped, FileMarker, ""))

\* "Handle code blocks", appending the trimmed form of the line
TestHandleCodeBlock_Trimmed(current_content, line, line_stripped) ==
    IF startswith(line_stripped, Fence)
    THEN current_content
    ELSE Append(current_content, line_stripped)

\* "Handle code blocks"
TestHandleCodeBlock(current_content, line, line_stripped) ==
    IF startswith(line_stripped, Fence) /\ Len(current_content) = 0
    THEN current_content
    ELSE IF startswith(line_stripped, Fence) /\ Len(current_content) > 0
         THEN current_content
         ELSE Append(current_content, line)

\* the dependencies branch of "Handle other sections"
TestDependencies(dependencies, line_stripped) ==
    IF Truthy(line_stripped) /\ ~startswith(line_stripped, "#")
    THEN Append(dependencies, line_stripped)
    ELSE dependencies

\* "Don't forget the last file"
TestLastFile(test_files, current_file, current_content) ==
    IF Truthy(current_file) /\ Len(current_content) > 0
    THEN Append(test_files, FileEntry(current_file, current_content))
    ELSE test_files

\* the locals after the statements that precede the loop, with the Files
\* section current from the start
TestEntry_FilesSection(f) ==
    [fn |-> f.fn, pc |-> "loop",
     response_content |-> f.response_content, task_data |-> f.task_data,
     result |-> [test_files |-> <<>>, strategy |-> "",
                 dependencies |-> <<>>, run_instructions |-> ""],
     lines |-> split(f.response_content, "\n"),
     scanned |-> 0,
     current_section |-> "files",
     current_file |-> None,
     current_content |-> <<>>]

\* the locals after the statements that precede the loop
TestEntry(f) ==
    [fn |-> f.fn, pc |-> "loop",
     response_content |-> f.response_content, task_data |-> f.task_data,
     result |-> [test_files |-> <<>>, strategy |-> "",
                 dependencies |-> <<>>, run_instructions |-> ""],
     lines |-> split(f.response_content, "\n"),
     scanned |-> 0,
     current_section |-> None,
     current_file |-> None,
     current_content |-> <<>>]

\* one iteration of "for line in lines", with a '### File:' line handled in
\* whatever section is current
TestLoopBody_FileHeaderAnywhere(f, line) ==
    LET line_stripped == strip(line)
        g == [f EXCEPT !.scanned = @ + 1]
    IN  IF TestIsSectionHeader(line_stripped)
        THEN [g EXCEPT !.current_section =
                            TestDetectSection(f.current_section, line_stripped)]
        ELSE IF startswith(line_stripped, FileMarker)
        THEN [g EXCEPT !.result.test_files =
                            TestSavePreviousFile(@, f.current_file,
                                                 f.current_content),
                       !.current_file = TestStartNewFile(line_stripped),
                       !.current_content = <<>>]
        ELSE IF f.current_section = "files" /\ Truthy(f.current_file)
        THEN [g EXCEPT !.current_content =
                            TestHandleCodeBlock(@, line, line_stripped)]
        ELSE IF f.current_section = "strategy"
        THEN [g EXCEPT !.result.strategy = @ \o line \o "\n"]
        ELSE IF f.current_section = "dependencies"
        THEN [g EXCEPT !.result.dependencies =
                            TestDependencies(@, line_stripped)]
        ELSE IF f.current_section = "instructions"
        THEN [g EXCEPT !.result.run_instructions = @ \o line \o "\n"]
        ELSE g

\* one iteration of "for line in lines"
TestLoopBody(f, line) ==
    LET line_stripped == strip(line)
        g == [f EXCEPT !.scanned = @ + 1]
    IN  IF TestIsSectionHeader(line_stripped)
        THEN [g EXCEPT !.current_section =
                            TestDetectSection(f.current_section, line_stripped)]
        ELSE IF f.current_section = "files"
                /\ startswith(line_stripped, FileMarker)
        THEN [g EXCEPT !.result.test_files =
                            TestSavePreviousFile(@, f.current_file,
                                                 f.current_content),
                       !.current_file = TestStartNewFile(line_stripped),
                       !.current_content = <<>>]
        ELSE IF f.current_section = "files" /\ Truthy(f.current_file)
        THEN [g EXCEPT !.current_content =
                            TestHandleCodeBlock(@, line, line_stripped)]
        ELSE IF f.current_section = "strategy"
        THEN [g EXCEPT !.result.strategy = @ \o line \o "\n"]
        ELSE IF f.current_section = "dependencies"
        THEN [g EXCEPT !.result.dependencies =
                            TestDependencies(@, line_stripped)]
        ELSE IF f.current_section = "instructions"
        THEN [g EXCEPT !.result.run_instructions = @ \o line \o "\n"]
        ELSE g

\* the statements after the loop
TestExit(f) ==
    [f EXCEPT !.pc = "returned",
              !.result.test_files =
                  TestLastFile(@, f.current_file, f.current_content)]

(***************************************************************************)
(* More of Python's str.                                                   *)
(***************************************************************************)
Digits == "0123456789"

DigitChars == Chars(Digits)

AlnumChars == Chars(Digits) \cup Chars(UpperCase) \cup Chars(LowerCase)

\* str.isdigit()
isdigit(s) == Len(s) > 0 /\ Chars(s) \subseteq DigitChars

\* c.isalnum() of one character
isalnum(c) == c \in AlnumChars

\* sub in s
contains(s, sub) == find(s, sub, 1) # 0

RECURSIVE lstripChars(_, _)
\* str.lstrip(chars), chars a set of characters
lstripChars(s, chars) ==
    IF Len(s) > 0 /\ Char(s, 1) \in chars
    THEN lstripChars(From(s, 2), chars)
    ELSE s

\* the exception a subscript out of range raises
IndexError == "<IndexError>"

\* whether evaluating an expression raised instead of giving a value
Raised(v) == v = IndexError

\* StrSlice as subscripts s[start], .., s[stop - 1]: out of range raises
StrSlice_Subscripts(s, start, stop) ==
    IF stop > Len(s) THEN IndexError ELSE SubSeq(s, start + 1, stop)

\* s[start:stop] with 0 <= start <= stop, Python's half-open slice: the
\* ends are clipped to the string, no slice raises
StrSlice(s, start, stop) ==
    IF start >= Len(s) THEN ""
    ELSE SubSeq(s, start + 1, IF stop > Len(s) THEN Len(s) ELSE stop)

\* the bullet glyph
Bullet == "@"

\* the characters the harvesters strip from the left of an item
ItemPrefixChars == Chars("- *" \o Bullet \o "0123456789. ")

(***************************************************************************)
(* ConfluenceJiraClient._extract_acceptance_criteria                       *)
(***************************************************************************)
\* "Look for acceptance criteria section"
CriteriaTrigger(line) == contains(lower(line), "acceptance criteria")

\* CriteriaStop that also stops at a blank line
CriteriaStop_BlankLine(line) ==
    line = "" \/ startswith(line, "#") \/ startswith(line, "**")

\* "Stop if we hit another section"
CriteriaStop(line) == startswith(line, "#") \/ startswith(line, "**")

\* line[0:2].replace('.', ''), or the exception its evaluation raised
CriteriaHead(line) ==
    LET head == StrSlice(line, 0, 2)
    IN  IF Raised(head) THEN head ELSE replace(head, ".", "")

\* "Extract criteria (usually bulleted or numbered)": the test
CriteriaIsItem(line) ==
    \/ startswith(line, "-") \/ startswith(line, "*") \/ startswith(line, Bullet)
    \/ isdigit(CriteriaHead(line))

\* the item appended for a harvested line
CriteriaItem(line) == lstripChars(line, ItemPrefixChars)

\* the locals after the statements that precede the loop, with the zone
\* open from the start
CriteriaEntry_ZoneOpen(f) ==
    [fn |-> f.fn, pc |-> "loop",
     response_content |-> f.response_content, task_data |-> f.task_data,
     criteria |-> <<>>,
     lines |-> split(f.response_content, "\n"),
     scanned |-> 0,
     in_acceptance_section |-> TRUE]

\* the locals after the statements that precede the loop
CriteriaEntry(f) ==
    [fn |-> f.fn, pc |-> "loop",
     response_content |-> f.response_content, task_data |-> f.task_data,
     criteria |-> <<>>,
     lines |-> split(f.response_content, "\n"),
     scanned |-> 0,
     in_acceptance_section |-> FALSE]

\* CriteriaLoopBody that keeps one occurrence of each item
CriteriaLoopBody_NoDuplicates(f, raw) ==
    LET line == strip(raw)
        g == [f EXCEPT !.scanned = @ + 1]
    IN  IF CriteriaTrigger(line)
        THEN [g EXCEPT !.in_acceptance_section = TRUE]
        ELSE IF ~f.in_acceptance_section THEN g
        ELSE IF CriteriaStop(line) THEN [g EXCEPT !.pc = "break"]
        ELSE IF Raised(CriteriaHead(line)) THEN [g EXCEPT !.pc = "raised"]
        ELSE IF CriteriaIsItem(line)
                /\ \A k \in 1..Len(f.criteria) : f.criteria[k] # CriteriaItem(line)
        THEN [g EXCEPT !.criteria = Append(@, CriteriaItem(line))]
        ELSE g

\* one iteration of "for line in lines"
CriteriaLoopBody(f, raw) ==
    LET line == strip(raw)
        g == [f EXCEPT !.scanned = @ + 1]
    IN  IF CriteriaTrigger(line)
        THEN [g EXCEPT !.in_acceptance_section = TRUE]
        ELSE IF ~f.in_acceptance_section THEN g
        ELSE IF CriteriaStop(line) THEN [g EXCEPT !.pc = "break"]
        ELSE IF Raised(CriteriaHead(line)) THEN [g EXCEPT !.pc = "raised"]
        ELSE IF CriteriaIsItem(line)
        THEN [g EXCEPT !.criteria = Append(@, CriteriaItem(line))]
        ELSE g

\* "return criteria"
CriteriaExit(f) == [f EXCEPT !.pc = "returned"]

(***************************************************************************)
(* TaskToCodePipeline._extract_requirements_from_content                   *)
(***************************************************************************)
\* the keywords that open the zone
RequirementKeywords == {"requirements", "acceptance criteria", "should", "must"}

RequirementsTrigger(line) ==
    \E keyword \in RequirementKeywords : contains(lower(line), keyword)

\* line[0:2].replace('.', ''), or the exception its evaluation raised
RequirementsHead(line) ==
    LET head == StrSlice(line, 0, 2)
    IN  IF Raised(head) THEN head ELSE replace(head, ".", "")

RequirementsIsItem(line) ==
    \/ startswith(line, "-") \/ startswith(line, "*") \/ startswith(line, Bullet)
    \/ isdigit(RequirementsHead(line))

\* the item appended for a harvested line
RequirementsItem(line) == lstripChars(line, ItemPrefixChars)

\* "End of requirements section": the test of the elif
RequirementsStop(line) == line # "" /\ ~\E c \in Chars(line) : isalnum(c)

\* the locals after the statements that precede the loop
RequirementsEntry(f) ==
    [fn |-> f.fn, pc |-> "loop",
     response_content |-> f.response_content, task_data |-> f.task_data,
     requirements |-> <<>>,
     lines |-> split(f.response_content, "\n"),
     scanned |-> 0,
     in_requirements |-> FALSE]

\* one iteration of "for line in lines"
RequirementsLoopBody(f, raw) ==
    LET line == strip(raw)
        g == [f EXCEPT !.scanned = @ + 1]
    IN  IF RequirementsTrigger(line)
        THEN [g EXCEPT !.in_requirements = TRUE]
        ELSE IF ~f.in_requirements THEN g
        ELSE IF Raised(RequirementsHead(line)) THEN [g EXCEPT !.pc = "raised"]
        ELSE IF RequirementsIsItem(line)
        THEN [g EXCEPT !.requirements = Append(@, RequirementsItem(line))]
        ELSE IF RequirementsStop(line) THEN [g EXCEPT !.pc = "break"]
        ELSE g

\* "return requirements"
RequirementsExit(f) == [f EXCEPT !.pc = "returned"]

(***************************************************************************)
(* The steps of the invocations.                                           *)
(***************************************************************************)
\* a call of fn with its arguments, before its first statement
Call(fn, response_content, task_data) ==
    [fn |-> fn, pc |-> "entry",
     response_content |-> response_content, task_data |-> task_data]

\* NextLine on a line buffer kept on the object, which holds the text of
\* the first invocation
NextLine_Shared(f) ==
    given[1].lines[IF f.scanned + 1 <= Len(given[1].lines)
                   THEN f.scanned + 1 ELSE 1]

\* the line the next iteration of the loop of frame f reads
NextLine(f) == f.lines[f.scanned + 1]

\* InLoop of a loop that break does not leave
InLoop_AfterBreak(f) == f.pc \in {"loop", "break"} /\ f.scanned < Len(f.lines)

\* the loop of frame f has a line left / has run out of lines or hit break
InLoop(f) == f.pc = "loop" /\ f.scanned < Len(f.lines)
LoopOver(f) == (f.pc = "loop" /\ f.scanned = Len(f.lines)) \/ f.pc = "break"

ParseCodeEnter ==
    \E p \in DOMAIN frames :
        /\ frames[p].fn = "_parse_code_response"
        /\ frames[p].pc = "entry"
        /\ frames' = [frames EXCEPT ![p] = CodeEntry(@)]
        /\ UNCHANGED given

ParseCodeLine ==
    \E p \in DOMAIN frames :
        /\ frames[p].fn = "_parse_code_response"
        /\ InLoop(frames[p])
        /\ frames' = [frames EXCEPT ![p] = CodeLoopBody(@, NextLine(@))]
        /\ UNCHANGED given

ParseCodeReturn ==
    \E p \in DOMAIN frames :
        /\ frames[p].fn = "_parse_code_response"
        /\ LoopOver(frames[p])
        /\ frames' = [frames EXCEPT ![p] = CodeExit(@)]
        /\ UNCHANGED given

ParseTestEnter ==
    \E p \in DOMAIN frames :
        /\ frames[p].fn = "_parse_test_response"
        /\ frames[p].pc = "entry"
        /\ frames' = [frames EXCEPT ![p] = TestEntry(@)]
        /\ UNCHANGED given

ParseTestLine ==
    \E p \in DOMAIN frames :
        /\ frames[p].fn = "_parse_test_response"
        /\ InLoop(frames[p])
        /\ frames' = [frames EXCEPT ![p] = TestLoopBody(@, NextLine(@))]
        /\ UNCHANGED given

ParseTestReturn ==
    \E p \in DOMAIN frames :
        /\ frames[p].fn = "_parse_test_response"
        /\ LoopOver(frames[p])
        /\ frames' = [frames EXCEPT ![p] = TestExit(@)]
        /\ UNCHANGED given

CriteriaEnter ==
    \E p \in DOMAIN frames :
        /\ frames[p].fn = "_extract_acceptance_criteria"
        /\ frames[p].pc = "entry"
        /\ frames' = [frames EXCEPT ![p] = CriteriaEntry(@)]
        /\ UNCHANGED given

CriteriaLine ==
    \E p \in DOMAIN frames :
        /\ frames[p].fn = "_extract_acceptance_criteria"
        /\ InLoop(frames[p])
        /\ frames' = [frames EXCEPT ![p] = CriteriaLoopBody(@, NextLine(@))]
        /\ UNCHANGED given

CriteriaReturn ==
    \E p \in DOMAIN frames :
        /\ frames[p].fn = "_extract_acceptance_criteria"
        /\ LoopOver(frames[p])
        /\ frames' = [frames EXCEPT ![p] = CriteriaExit(@)]
        /\ UNCHANGED given

RequirementsEnter ==
    \E p \in DOMAIN frames :
        /\ frames[p].fn = "_extract_requirements_from_content"
        /\ frames[p].pc = "entry"
        /\ frames' = [frames EXCEPT ![p] = RequirementsEntry(@)]
        /\ UNCHANGED given

RequirementsLine ==
    \E p \in DOMAIN frames :
        /\ frames[p].fn = "_extract_requirements_from_content"
        /\ InLoop(frames[p])
        /\ frames' = [frames EXCEPT ![p] = RequirementsLoopBody(@, NextLine(@))]
        /\ UNCHANGED given

RequirementsReturn ==
    \E p \in DOMAIN frames :
        /\ frames[p].fn = "_extract_requirements_from_content"
        /\ LoopOver(frames[p])
        /\ frames' = [frames EXCEPT ![p] = RequirementsExit(@)]
        /\ UNCHANGED given

NextCode == ParseCodeEnter \/ ParseCodeLine \/ ParseCodeReturn

NextTest == ParseTestEnter \/ ParseTestLine \/ ParseTestReturn

NextCriteria == CriteriaEnter \/ CriteriaLine \/ CriteriaReturn

NextRequirements == RequirementsEnter \/ RequirementsLine \/ RequirementsReturn

(***************************************************************************)
(* Inputs.                                                                 *)
(***************************************************************************)
\* the sequences of 1..n elements of S
SeqsUpTo(S, n) == UNION {[1..k -> S] : k \in 1..n}

\* lines every response of the general specification is made of: a file
\* header, a file header with no path, a fence line, an ordinary line
\* with blanks around it, and a blank line
CommonLines == {"### File: src/a.py", "### File:", " ~~~python", " - x ", ""}

\* section header lines of a code-generation response
CodeHeaderLines ==
    {"## Analysis", " ## Files to Create/Modify", "## Implementation Notes:",
     "## Dependencies"}

\* section header lines of a test-generation response
TestHeaderLines ==
    {"## Test Strategy", " ## Test Files", "## Running the Tests:",
     "## Test Dependencies"}

\* lines of a task description: a trigger of both harvesters, a trigger of
\* the requirements harvester alone, a bulleted and a numbered item, a blank
\* line, two separators, a heading and a bold marker
DescriptionLines ==
    {"Acceptance Criteria:", "It must work", "- x", "12. y", "", "===", "---",
     "# Notes", "**Bold**"}

\* task_data of the repository's test
TaskData == [k \in {"key"} |-> "TEST-123"]

\* one invocation of fn on the text made of the lines ls, where src tells
\* what the lines were rendered from
InvokeFrom(fn, ls, src) ==
    /\ frames = [p \in {1} |-> Call(fn, join("\n", ls), TaskData)]
    /\ given = [p \in {1} |-> [lines |-> ls, src |-> src]]

\* one invocation of fn on the text made of the lines ls
Invoke(fn, ls) == InvokeFrom(fn, ls, "lines")

(***************************************************************************)
(* Spec: one invocation of either response parser on any text of at most   *)
(* MaxLines lines.                                                         *)
(***************************************************************************)
InitParsers ==
    \/ \E ls \in SeqsUpTo(CommonLines \cup CodeHeaderLines, MaxLines) :
          Invoke("_parse_code_response", ls)
    \/ \E ls \in SeqsUpTo(CommonLines \cup TestHeaderLines, MaxLines) :
          Invoke("_parse_test_response", ls)

Init == InitParsers

Next == NextCode \/ NextTest

Spec == Init /\ [][Next]_vars

(***************************************************************************)
(* SpecHarvest: one invocation of either harvester on any description of   *)
(* at most MaxLines lines.                                                 *)
(***************************************************************************)
InitHarvest ==
    \/ \E ls \in SeqsUpTo(DescriptionLines, MaxLines) :
          Invoke("_extract_acceptance_criteria", ls)
    \/ \E ls \in SeqsUpTo(DescriptionLines, MaxLines) :
          Invoke("_extract_requirements_from_content", ls)

NextHarvest == NextCriteria \/ NextRequirements

SpecHarvest == InitHarvest /\ [][NextHarvest]_vars

(***************************************************************************)
(* SpecAll: one invocation of any of the four extractors.                  *)
(***************************************************************************)
InitAll == InitParsers \/ InitHarvest

NextAll == NextCode \/ NextTest \/ NextCriteria \/ NextRequirements

SpecAll == InitAll /\ [][NextAll]_vars

(***************************************************************************)
(* SpecBlocks: _parse_code_response on a response rendered from at most    *)
(* MaxBlocks file blocks: the Files header, then each block as its header  *)
(* line, an optional opening fence, its content lines, an optional closing *)
(* fence and an optional blank line, then nothing or a Dependencies        *)
(* section.                                                                *)
(***************************************************************************)
\* the files a response may hold, each with at least one content line
ResponseFiles ==
    {[path |-> "src/a.py", body |-> <<"x = 1">>],
     [path |-> "src/b.py", body |-> <<"y = 2">>],
     [path |-> "docs/c.md", body |-> <<"  z", "", "w">>]}

Blocks ==
    [file : ResponseFiles, open : BOOLEAN, close : BOOLEAN,
     blank_after : BOOLEAN]

\* what surrounds the blocks: nothing, or a blank line after the Files
\* header and a Dependencies section after the blocks
Layouts ==
    {[lead |-> <<>>, tail |-> <<>>],
     [lead |-> <<"">>,
      tail |-> <<"## Dependencies", "- requests>=2.0.0", "- pyyaml">>]}

Docs == [layout : Layouts, blocks : {<<>>} \cup SeqsUpTo(Blocks, MaxBlocks)]

RenderBlock(b) ==
    <<FileMarker \o " " \o b.file.path>>
    \o (IF b.open THEN <<Fence \o "python">> ELSE <<>>)
    \o b.file.body
    \o (IF b.close THEN <<Fence>> ELSE <<>>)
    \o (IF b.blank_after THEN <<"">> ELSE <<>>)

RECURSIVE RenderBlocks(_)
RenderBlocks(bs) ==
    IF bs = <<>> THEN <<>> ELSE RenderBlock(Head(bs)) \o RenderBlocks(Tail(bs))

RenderDoc(d) ==
    <<"## Files to Create/Modify">> \o d.layout.lead
    \o RenderBlocks(d.blocks) \o d.layout.tail

InitBlocks ==
    \E d \in Docs : InvokeFrom("_parse_code_response", RenderDoc(d), d)

SpecBlocks == InitBlocks /\ [][NextCode]_vars

(***************************************************************************)
(* SpecRoundTrip: _parse_code_response on one file block rendered from a   *)
(* content of at most MaxContent lines: the Files header, the file header, *)
(* an opening fence, the lines of the content, a closing fence.            *)
(***************************************************************************)
\* lines of a content: ordinary lines, a blank line, a fence, an indented
\* fence, a section header and a file header
ContentLines ==
    {"x = 1", "  y = 2 ", "", "~~~", "  ~~~", "## Analysis",
     "### File: src/b.py"}

RenderFile(path, content) ==
    <<"## Files to Create/Modify", FileMarker \o " " \o path, Fence>>
    \o split(content, "\n") \o <<Fence>>

InitRoundTrip ==
    \E ls \in SeqsUpTo(ContentLines, MaxContent) :
        LET original == [path |-> "src/a.py", content |-> join("\n", ls)]
        IN  InvokeFrom("_parse_code_response",
                       RenderFile(original.path, original.content), original)

SpecRoundTrip == InitRoundTrip /\ [][NextCode]_vars

(***************************************************************************)
(* SpecZone: the two harvesters on a description whose first line opens    *)
(* the zone and is followed by at most MaxZone lines: bulleted and         *)
(* numbered items, a bulleted item that holds a trigger word, a blank      *)
(* line, commentary, separators, a bold line, a heading and a heading that *)
(* holds the trigger phrase.                                               *)
(***************************************************************************)
ZoneTrigger == "Acceptance Criteria:"

ZoneLines ==
    {"- x", "  * x", "@ y", "1. x", "12. y", "- It must work", "", "note",
     "===", "---", "**Bold**", "# Notes", "# Acceptance Criteria"}

InitZone ==
    \E fn \in {"_extract_acceptance_criteria",
               "_extract_requirements_from_content"} :
        \E ls \in {<<>>} \cup SeqsUpTo(ZoneLines, MaxZone) :
            InvokeFrom(fn, <<ZoneTrigger>> \o ls, [zone |-> ls])

SpecZone == InitZone /\ [][NextHarvest]_vars

(***************************************************************************)
(* SpecOpen: the two harvesters on a description of at most MaxLines lines *)
(* in which the zone may open anywhere or nowhere: items, commentary, a    *)
(* heading, and trigger lines of each variant that look like items.        *)
(***************************************************************************)
OpenLines ==
    {"- x", "1. y", "note", "# Notes", "- Acceptance criteria",
     "- It must work"}

InitOpen ==
    \E fn \in {"_extract_acceptance_criteria",
               "_extract_requirements_from_content"} :
        \E ls \in SeqsUpTo(OpenLines, MaxLines) : Invoke(fn, ls)

SpecOpen == InitOpen /\ [][NextHarvest]_vars

(***************************************************************************)
(* SpecPath: either response parser on a response of three lines: the      *)
(* Files header, a file header line made of optional spaces, the marker,   *)
(* optional spaces, a path text and optional spaces, and one content line. *)
(* The path texts hold a plain path, a path with a space inside, a path in *)
(* backquotes and paths in which the marker text occurs again.             *)
(***************************************************************************)
PathTexts ==
    {"src/a.py", "my file.py", "~src/a.py~", "docs/### File: notes.md",
     "### File:x.py", "a.py ### File:"}

PathSpaces == {"", " ", "  "}

HeaderLineParts ==
    [lead : PathSpaces, gap : PathSpaces, path : PathTexts, trail : PathSpaces]

RenderHeaderLine(h) == h.lead \o FileMarker \o h.gap \o h.path \o h.trail

InitPath ==
    \/ \E h \in HeaderLineParts :
          InvokeFrom("_parse_code_response",
                     <<"## Files to Create/Modify", RenderHeaderLine(h), "x">>, h)
    \/ \E h \in HeaderLineParts :
          InvokeFrom("_parse_test_response",
                     <<"## Test Files", RenderHeaderLine(h), "x">>, h)

SpecPath == InitPath /\ [][Next]_vars

(***************************************************************************)
(* SpecRename: either response parser on a text of at most MaxLines lines  *)
(* that holds, besides its own section headers, a file header, a fence, a  *)
(* content line and a blank line, the Dependencies header of the other     *)
(* parser.                                                                 *)
(***************************************************************************)
RenameLines == {"### File: src/a.py", " ~~~python", " - x ", ""}

InitRename ==
    \/ \E ls \in SeqsUpTo(RenameLines \cup CodeHeaderLines
                             \cup {"## Test Dependencies"}, MaxLines) :
          Invoke("_parse_code_response", ls)
    \/ \E ls \in SeqsUpTo(RenameLines \cup TestHeaderLines
                             \cup {"## Dependencies"}, MaxLines) :
          Invoke("_parse_test_response", ls)

SpecRename == InitRename /\ [][Next]_vars

(***************************************************************************)
(* SpecPair: two invocations of the response parsers on the same generator *)
(* object, each on its own text of at most MaxPair lines, their steps      *)
(* interleaved in every order.                                             *)
(***************************************************************************)
PairLines == {"## Analysis", "## Test Strategy", " x "}

InitPair ==
    \E fn1 \in {"_parse_code_response", "_parse_test_response"},
       fn2 \in {"_parse_code_response", "_parse_test_response"} :
        \E ls1 \in SeqsUpTo(PairLines, MaxPair),
           ls2 \in SeqsUpTo(PairLines, MaxPair) :
            /\ frames = <<Call(fn1, join("\n", ls1), TaskData),
                          Call(fn2, join("\n", ls2), TaskData)>>
            /\ given = <<[lines |-> ls1, src |-> "lines"],
                         [lines |-> ls2, src |-> "lines"]>>

SpecPair == InitPair /\ [][Next]_vars

\* a parser run from frame f to its return, nothing else running
RECURSIVE CodeRun(_)
CodeRun(f) ==
    IF f.pc = "loop" /\ f.scanned < Len(f.lines)
    THEN CodeRun(CodeLoopBody(f, f.lines[f.scanned + 1]))
    ELSE CodeExit(f)

RECURSIVE TestRun(_)
TestRun(f) ==
    IF f.pc = "loop" /\ f.scanned < Len(f.lines)
    THEN TestRun(TestLoopBody(f, f.lines[f.scanned + 1]))
    ELSE TestExit(f)

\* the result of fn called alone on response_content
Alone(fn, response_content) ==
    IF fn = "_parse_code_response"
    THEN CodeRun(CodeEntry(Call(fn, response_content, TaskData))).result
    ELSE TestRun(TestEntry(Call(fn, response_content, TaskData))).result

(***************************************************************************)
(* SpecLanguage: one call of _detect_language_from_path on a path made of  *)
(* a directory, a stem and an extension: every key of the table, keys in   *)
(* another case, an unknown extension and none.                            *)
(***************************************************************************)
PathDirs == {"", "src/", "pkg.v2/"}

PathStems == {"main", "x.y", ""}

PathExtensions == DOMAIN extension_map \cup {"", ".txt", ".PY", ".r", ".Md"}

Paths == {d \o n \o x : d \in PathDirs, n \in PathStems, x \in PathExtensions}

InitLanguage ==
    \E file_path \in Paths :
        /\ frames = <<[fn |-> "_detect_language_from_path", pc |-> "entry",
                       file_path |-> file_path]>>
        /\ given = <<[lines |-> <<>>, src |-> file_path]>>

\* the call runs to its return
DetectLanguage ==
    \E p \in DOMAIN frames :
        /\ frames[p].fn = "_detect_language_from_path"
        /\ frames[p].pc = "entry"
        /\ frames' = [frames EXCEPT ![p] =
                         [fn |-> @.fn, pc |-> "returned",
                          file_path |-> @.file_path,
                          result |-> _detect_language_from_path(@.file_path)]]
        /\ UNCHANGED given

SpecLanguage == InitLanguage /\ [][DetectLanguage]_vars

(***************************************************************************)
(* Config (config.py).  A value loaded from the YAML file is a record      *)
(* [type, value, items]: a str or an int with its text in value, None, or  *)
(* a dict with its mapping in items.                                       *)
(***************************************************************************)
StrValue(v) == [type |-> "str", value |-> v, items |-> <<>>]

IntValue(v) == [type |-> "int", value |-> v, items |-> <<>>]

NoneValue == [type |-> "NoneType", value |-> "", items |-> <<>>]

DictValue(items) == [type |-> "dict", value |-> "", items |-> items]

\* an exception of the class, with its message
Exception(class, message) ==
    [type |-> "exception", value |-> message, items |-> <<>>, class |-> class]

\* current[key]: the value, or the exception the subscript raises
Subscript(current, key) ==
    IF current.type = "exception" THEN current
    ELSE IF current.type = "dict"
    THEN IF key \in DOMAIN current.items THEN current.items[key]
         ELSE Exception("KeyError", key)
    ELSE Exception("TypeError", "'" \o current.type \o "' is not subscriptable by a str")

\* not current
Not(current) ==
    CASE current.type = "str" -> current.value = ""
      [] current.type = "int" -> current.value = "0"
      [] current.type = "dict" -> DOMAIN current.items = {}
      [] OTHER -> TRUE

required_fields ==
    <<"confluence.base_url", "confluence.username", "confluence.api_token",
      "project.repository_path", "anthropic.api_key">>

\* "for key in keys: current = current[key]"
RECURSIVE Lookup(_, _)
Lookup(current, keys) ==
    IF keys = <<>> THEN current
    ELSE Lookup(Subscript(current, Head(keys)), Tail(keys))

\* one iteration of "for field in required_fields" of _validate_config: None,
\* or the exception that leaves the function
_validate_config_field(config, field) ==
    LET current == Lookup(config, split(field, "."))
    IN  IF current.type = "exception"
        THEN IF current.class = "KeyError"
             THEN Exception("ValueError",
                            "Missing required configuration field: " \o field)
             ELSE current
        ELSE IF Not(current)
        THEN Exception("ValueError", "Please set a valid value for " \o field)
        ELSE IF current.type # "str"
        THEN Exception("AttributeError",
                       "'" \o current.type \o "' object has no attribute 'startswith'")
        ELSE IF startswith(current.value, "your-")
        THEN Exception("ValueError", "Please set a valid value for " \o field)
        ELSE NoneValue

\* __init__ up to the validation: the file is looked for and loaded
ConfigLoad ==
    \E p \in DOMAIN frames :
        /\ frames[p].fn = "Config.__init__"
        /\ frames[p].pc = "entry"
        /\ frames' = [frames EXCEPT ![p] =
              IF ~@.exists
              THEN [fn |-> @.fn, pc |-> "raised", exists |-> @.exists,
                    file |-> @.file, checked |-> 0,
                    exception |-> Exception("FileNotFoundError",
                                            "Configuration file not found")]
              ELSE [fn |-> @.fn, pc |-> "loop", exists |-> @.exists,
                    file |-> @.file, checked |-> 0, exception |-> NoneValue]]
        /\ UNCHANGED given

\* one iteration of the loop of _validate_config
ConfigValidateField ==
    \E p \in DOMAIN frames :
        /\ frames[p].fn = "Config.__init__"
        /\ frames[p].pc = "loop"
        /\ frames[p].checked < Len(required_fields)
        /\ LET raised == _validate_config_field(
                             frames[p].file,
                             required_fields[frames[p].checked + 1])
           IN  frames' = [frames EXCEPT ![p] =
                  IF raised.type = "exception"
                  THEN [@ EXCEPT !.pc = "raised", !.exception = raised]
                  ELSE [@ EXCEPT !.checked = @ + 1]]
        /\ UNCHANGED given

\* "return config" and "self._config = ...": the object exists
ConfigReturn ==
    \E p \in DOMAIN frames :
        /\ frames[p].fn = "Config.__init__"
        /\ frames[p].pc = "loop"
        /\ frames[p].checked = Len(required_fields)
        /\ frames' = [frames EXCEPT ![p] = [@ EXCEPT !.pc = "returned"]]
        /\ UNCHANGED given

NextConfig == ConfigLoad \/ ConfigValidateField \/ ConfigReturn

(***************************************************************************)
(* SpecConfig: one construction of a Config from a file that is missing    *)
(* or holds any choice, for each section, of absent, null or a mapping     *)
(* and, for each required field, of absent, '', a placeholder, a value,    *)
(* null or a number; or from an empty file.                                *)
(***************************************************************************)
SectionShapes == {"absent", "null", "dict"}

FieldChoices == {"absent", "empty", "placeholder", "value", "null", "number"}

ConfigSections == {"confluence", "project", "anthropic"}

FieldsOfSection(section) ==
    CASE section = "confluence" -> {"base_url", "username", "api_token"}
      [] section = "project" -> {"repository_path"}
      [] section = "anthropic" -> {"api_key"}

\* the value yaml.safe_load gives for the choice
ValueOfChoice(choice) ==
    CASE choice = "empty" -> StrValue("")
      [] choice = "placeholder" -> StrValue("your-api-token")
      [] choice = "value" -> StrValue("secret")
      [] choice = "number" -> IntValue("12345")
      [] OTHER -> NoneValue

\* the value yaml.safe_load gives for the file described by src
LoadedConfig(src) ==
    IF src.empty THEN NoneValue
    ELSE DictValue(
        [section \in {t \in ConfigSections : src.shape[t] # "absent"} |->
            IF src.shape[section] = "null" THEN NoneValue
            ELSE DictValue(
                [key \in {k \in FieldsOfSection(section) :
                             src.choice[section \o "." \o k] # "absent"} |->
                    ValueOfChoice(src.choice[section \o "." \o key])])])

\* the descriptions of the files: choices that cannot show are fixed
ConfigFiles ==
    {src \in [exists : BOOLEAN, empty : BOOLEAN,
              shape : [ConfigSections -> SectionShapes],
              choice : [{required_fields[i] : i \in 1..Len(required_fields)}
                            -> FieldChoices]] :
        /\ (~src.exists \/ src.empty) =>
              \A t \in ConfigSections : src.shape[t] = "absent"
        /\ ~src.exists => ~src.empty
        /\ \A t \in ConfigSections :
              src.shape[t] # "dict" =>
                  \A k \in FieldsOfSection(t) : src.choice[t \o "." \o k] = "absent"}

InitConfig ==
    \E src \in ConfigFiles :
        /\ frames = <<[fn |-> "Config.__init__", pc |-> "entry",
                       exists |-> src.exists, file |-> LoadedConfig(src)]>>
        /\ given = <<[lines |-> <<>>, src |-> src]>>

SpecConfig == InitConfig /\ [][NextConfig]_vars

(***************************************************************************)
(* Vocabulary of the properties.                                           *)
(***************************************************************************)
Parsers == {"_parse_code_response", "_parse_test_response"}

Harvesters == {"_extract_acceptance_criteria", "_extract_requirements_from_content"}

\* the fixed table {literal prefix -> Section tag} of each variant
HeaderTable(fn) ==
    IF fn = "_parse_code_response"
    THEN [t \in {"## Analysis", "## Files to Create/Modify",
                 "## Implementation Notes", "## Dependencies"} |->
            CASE t = "## Analysis" -> "analysis"
              [] t = "## Files to Create/Modify" -> "files"
              [] t = "## Implementation Notes" -> "notes"
              [] t = "## Dependencies" -> "dependencies"]
    ELSE [t \in {"## Test Strategy", "## Test Files",
                 "## Running the Tests", "## Test Dependencies"} |->
            CASE t = "## Test Strategy" -> "strategy"
              [] t = "## Test Files" -> "files"
              [] t = "## Running the Tests" -> "instructions"
              [] t = "## Test Dependencies" -> "dependencies"]

\* the header tokens the trimmed form of line starts with
MatchingTokens(fn, line) ==
    LET line_stripped == strip(line)
    IN  {t \in DOMAIN HeaderTable(fn) : startswith(line_stripped, t)}

IsHeaderLine(fn, line) == MatchingTokens(fn, line) # {}

IsFileHeaderLine(line) == startswith(strip(line), FileMarker)

IsFenceLine(line) == startswith(strip(line), Fence)

\* the file list, the dependencies and the two prose strings of a parser
FilesOf(f) ==
    IF f.fn = "_parse_code_response" THEN f.result.files ELSE f.result.test_files

DependenciesOf(f) == f.result.dependencies

ProseOf(f) ==
    IF f.fn = "_parse_code_response"
    THEN <<f.result.analysis, f.result.notes>>
    ELSE <<f.result.strategy, f.result.run_instructions>>

\* an invocation of a parser that has run its first statements
Scanning(p) == frames[p].fn \in Parsers /\ frames[p].pc # "entry"

\* the lines of the text invocation p was given, and the k-th of them
GivenLines(p) == given[p].lines

\* the step from frames to frames' is an iteration of p's loop
LineStep(p) ==
    /\ frames[p].pc = "loop"
    /\ frames'[p].scanned = frames[p].scanned + 1

\* the line the iteration LineStep(p) reads
StepLine(p) == GivenLines(p)[frames[p].scanned + 1]

\* the line p read last
LastLine(p) == GivenLines(p)[frames[p].scanned]

(***************************************************************************)
(* C9: lines that occur before the first recognized section header         *)
(* contribute to no output field: as long as no scanned line is a section  *)
(* header, and so in the returned result of an input with no header line,  *)
(* the file list and the dependencies are empty and both prose strings are *)
(* empty.                                                                  *)
(***************************************************************************)
NoHeaderScanned(p) ==
    \A k \in 1..frames[p].scanned :
        ~IsHeaderLine(frames[p].fn, GivenLines(p)[k])

C9_NothingBeforeFirstHeader ==
    \A p \in DOMAIN frames :
        (Scanning(p) /\ NoHeaderScanned(p)) =>
            /\ FilesOf(frames[p]) = <<>>
            /\ DependenciesOf(frames[p]) = <<>>
            /\ ProseOf(frames[p]) = <<"", "">>

\* a parser has returned from an input of several lines without a section
\* header that holds a file header, a fence and an ordinary line
C9_Witness ==
    \E p \in DOMAIN frames :
        /\ Scanning(p) /\ frames[p].pc = "returned" /\ NoHeaderScanned(p)
        /\ \E i, j, k \in 1..frames[p].scanned :
              /\ GivenLines(p)[i] = "### File: src/a.py"
              /\ GivenLines(p)[j] = " ~~~python"
              /\ GivenLines(p)[k] = " - x "

(***************************************************************************)
(* C10: every line whose trimmed form starts with one of the variant's     *)
(* section header tokens sets current_section to the matching tag and is   *)
(* consumed: the step that reads it changes no prose buffer, no file       *)
(* list, no dependencies list, and neither the file in progress nor its    *)
(* content, also while a file is in progress inside the Files section.     *)
(***************************************************************************)
C10_HeaderConsumed ==
    [][\A p \in DOMAIN frames :
          (Scanning(p) /\ LineStep(p)
              /\ IsHeaderLine(frames[p].fn, StepLine(p))) =>
             /\ \A t \in MatchingTokens(frames[p].fn, StepLine(p)) :
                   frames'[p].current_section = HeaderTable(frames[p].fn)[t]
             /\ frames'[p].result = frames[p].result
             /\ frames'[p].current_file = frames[p].current_file
             /\ frames'[p].current_content = frames[p].current_content
             /\ frames'[p].pc = "loop"]_vars

\* a section header has just been read while a file with content was in
\* progress in the Files section
C10_Witness ==
    \E p \in DOMAIN frames :
        /\ Scanning(p) /\ frames[p].scanned >= 2
        /\ IsHeaderLine(frames[p].fn, LastLine(p))
        /\ frames[p].current_section \in {"notes", "instructions"}
        /\ Truthy(frames[p].current_file)
        /\ frames[p].current_content # <<>>

(***************************************************************************)
(* C6: while a file is in progress in the Files section, the step that     *)
(* reads a line whose trimmed form starts with the fence token changes     *)
(* neither the content nor anything else of the scan, whether the content  *)
(* collected so far is empty or not; and no line of the content in         *)
(* progress or of a listed file's content starts, after trimming, with     *)
(* the fence token.                                                        *)
(***************************************************************************)
NoFenceIn(content_lines) ==
    \A k \in 1..Len(content_lines) : ~IsFenceLine(content_lines[k])

NoFenceInContents(f) ==
    /\ NoFenceIn(f.current_content)
    /\ \A i \in 1..Len(FilesOf(f)) :
          NoFenceIn(split(FilesOf(f)[i].content, "\n"))

C6_FenceNeverContent ==
    [][\A p \in DOMAIN frames :
          /\ (Scanning(p) /\ LineStep(p)
                 /\ frames[p].current_section = "files"
                 /\ Truthy(frames[p].current_file)
                 /\ IsFenceLine(StepLine(p))
                 /\ ~IsHeaderLine(frames[p].fn, StepLine(p))
                 /\ ~IsFileHeaderLine(StepLine(p))) =>
                /\ frames'[p].current_content = frames[p].current_content
                /\ frames'[p].current_file = frames[p].current_file
                /\ frames'[p].current_section = frames[p].current_section
                /\ frames'[p].result = frames[p].result
          /\ (frames'[p].fn \in Parsers /\ frames'[p].pc # "entry") =>
                NoFenceInContents(frames'[p])]_vars

\* a fence line has just been read while the file in progress already had
\* content
C6_Witness ==
    \E p \in DOMAIN frames :
        /\ Scanning(p) /\ frames[p].scanned >= 1
        /\ IsFenceLine(LastLine(p))
        /\ frames[p].current_section = "files"
        /\ Truthy(frames[p].current_file)
        /\ frames[p].current_content # <<>>

(***************************************************************************)
(* C5: at end of input, a file still in progress is appended to the file   *)
(* list (with its path and its content lines joined by newlines) if and    *)
(* only if at least one content line was collected for it; with no         *)
(* content line it is dropped and the file list is returned as it is.      *)
(***************************************************************************)
ReturnStep(p) == frames[p].pc # "returned" /\ frames'[p].pc = "returned"

C5_LastFileIffContent ==
    [][\A p \in DOMAIN frames :
          (Scanning(p) /\ ReturnStep(p)) =>
             LET f == frames[p]
                 old == FilesOf(f)
                 new == FilesOf(frames'[p])
             IN  IF Truthy(f.current_file) /\ Len(f.current_content) >= 1
                 THEN /\ Len(new) = Len(old) + 1
                      /\ SubSeq(new, 1, Len(old)) = old
                      /\ new[Len(new)].path = f.current_file
                      /\ new[Len(new)].content = join("\n", f.current_content)
                 ELSE new = old]_vars

\* a parser has returned while a file without any content line was in
\* progress, and that file is not in the list
C5_Witness ==
    \E p \in DOMAIN frames :
        /\ Scanning(p) /\ frames[p].pc = "returned"
        /\ Truthy(frames[p].current_file)
        /\ frames[p].current_content = <<>>
        /\ FilesOf(frames[p]) = <<>>

(***************************************************************************)
(* C4: in both parsers, when a '### File:' header line is followed by the  *)
(* next '### File:' header line with zero content lines collected in       *)
(* between, the first file is dropped: the step that reads the second      *)
(* header leaves the file list as it is.                                   *)
(***************************************************************************)
C4_EmptyFileDroppedAtNextHeader ==
    [][\A p \in DOMAIN frames :
          (Scanning(p) /\ LineStep(p)
              /\ frames[p].current_section = "files"
              /\ ~IsHeaderLine(frames[p].fn, StepLine(p))
              /\ IsFileHeaderLine(StepLine(p))
              /\ Truthy(frames[p].current_file)
              /\ frames[p].current_content = <<>>) =>
             FilesOf(frames'[p]) = FilesOf(frames[p])]_vars

(***************************************************************************)
(* C1: for an input of _parse_code_response whose Files section contains   *)
(* N well-formed file blocks (a '### File:' header line, an optional       *)
(* opening fence line, at least one content line, an optional closing      *)
(* fence line), result['files'] has exactly N entries, in source order,    *)
(* the i-th entry's path being the path of the i-th header.                *)
(***************************************************************************)
Returned(p) == frames[p].pc = "returned"

C1_OneEntryPerBlock ==
    \A p \in DOMAIN frames :
        (frames[p].fn = "_parse_code_response" /\ Returned(p)) =>
            LET blocks == given[p].src.blocks
                files == frames[p].result.files
            IN  /\ Len(files) = Len(blocks)
                /\ \A i \in 1..Len(blocks) : files[i].path = blocks[i].file.path

\* the parser has returned two entries from two blocks of different paths,
\* the first without fences, the second with an opening fence only
C1_Witness ==
    \E p \in DOMAIN frames :
        /\ Returned(p)
        /\ Len(given[p].src.blocks) = 2
        /\ given[p].src.blocks[1].file.path # given[p].src.blocks[2].file.path
        /\ ~given[p].src.blocks[1].open /\ ~given[p].src.blocks[1].close
        /\ given[p].src.blocks[2].open /\ ~given[p].src.blocks[2].close
        /\ Len(frames[p].result.files) = 2

(***************************************************************************)
(* C2: for every file block that has fence lines, the entry's content is   *)
(* exactly the lines strictly between the block's first fence line and its *)
(* next fence line, joined by newlines: lines before the opening fence or  *)
(* after the closing fence, blank lines included, are not part of it.      *)
(* When the block has no fence line at all, the content is the lines       *)
(* between its header and the next file header.                            *)
(***************************************************************************)
C2_ContentBetweenFences ==
    \A p \in DOMAIN frames :
        (frames[p].fn = "_parse_code_response" /\ Returned(p)) =>
            LET blocks == given[p].src.blocks
                files == frames[p].result.files
            IN  \A i \in 1..Len(blocks) :
                    /\ i <= Len(files)
                    /\ (blocks[i].open /\ blocks[i].close) =>
                          files[i].content = join("\n", blocks[i].file.body)
                    /\ (~blocks[i].open /\ ~blocks[i].close) =>
                          files[i].content =
                              join("\n", blocks[i].file.body
                                         \o (IF blocks[i].blank_after
                                             THEN <<"">> ELSE <<>>))

(***************************************************************************)
(* C3: parsing with _parse_code_response the text made of                  *)
(* '## Files to Create/Modify', a blank line, '### File: src/a.py', a      *)
(* python fence, 'x = 1', a fence, a blank line, '### File: src/b.py', a   *)
(* python fence, 'y = 2', a fence, a blank line, '## Dependencies',        *)
(* '- requests>=2.0.0', '- pyyaml' yields the files (src/a.py, 'x = 1')    *)
(* then (src/b.py, 'y = 2') and the dependencies 'requests>=2.0.0',        *)
(* 'pyyaml'.                                                               *)
(***************************************************************************)
ScenarioText ==
    "## Files to Create/Modify\n\n### File: src/a.py\n~~~python\nx = 1\n~~~\n\n"
    \o "### File: src/b.py\n~~~python\ny = 2\n~~~\n\n"
    \o "## Dependencies\n- requests>=2.0.0\n- pyyaml"

C3_Scenario ==
    \A p \in DOMAIN frames :
        (frames[p].fn = "_parse_code_response" /\ Returned(p)
            /\ frames[p].response_content = ScenarioText) =>
            LET files == frames[p].result.files
            IN  /\ Len(files) = 2
                /\ files[1].path = "src/a.py" /\ files[1].content = "x = 1"
                /\ files[2].path = "src/b.py" /\ files[2].content = "y = 2"
                /\ frames[p].result.dependencies = <<"requests>=2.0.0", "pyyaml">>

(***************************************************************************)
(* C7: round trip.  As claimed: for every content none of whose lines      *)
(* starts with the fence token, rendering it as a file block (Files        *)
(* header, file header, opening fence, the lines of the content, closing   *)
(* fence) and parsing it returns files[0].content equal to the content.    *)
(***************************************************************************)
C7_RoundTrip ==
    \A p \in DOMAIN frames :
        (frames[p].fn = "_parse_code_response" /\ Returned(p)
            /\ \A k \in 1..Len(split(given[p].src.content, "\n")) :
                  ~startswith(split(given[p].src.content, "\n")[k], Fence)) =>
            /\ Len(frames[p].result.files) >= 1
            /\ frames[p].result.files[1].content = given[p].src.content

(***************************************************************************)
(* C7 as amended: the round trip holds for every content none of whose     *)
(* lines, after trimming, starts with the fence token, with a section      *)
(* header token or with the file marker; the result then holds that one    *)
(* file, under the path of the block.                                      *)
(***************************************************************************)
PlainContent(content) ==
    \A k \in 1..Len(split(content, "\n")) :
        LET line == split(content, "\n")[k]
        IN  /\ ~IsFenceLine(line)
            /\ ~IsHeaderLine("_parse_code_response", line)
            /\ ~IsFileHeaderLine(line)

C7_RoundTripPlainContent ==
    \A p \in DOMAIN frames :
        (frames[p].fn = "_parse_code_response" /\ Returned(p)
            /\ PlainContent(given[p].src.content)) =>
            /\ Len(frames[p].result.files) = 1
            /\ frames[p].result.files[1].path = given[p].src.path
            /\ frames[p].result.files[1].content = given[p].src.content

\* the parser has returned the content of three lines, one of them blank
\* and one with blanks around it, that the block was rendered from
C7_Witness ==
    \E p \in DOMAIN frames :
        /\ Returned(p)
        /\ given[p].src.content = "  y = 2 \n\nx = 1"
        /\ frames[p].result.files[1].content = "  y = 2 \n\nx = 1"

(***************************************************************************)
(* C8 as claimed: for every input string, whatever its structure, each of  *)
(* the four extractors scans every line once, terminates and returns a     *)
(* result; none reaches an error state.  Here: no invocation is in the     *)
(* error state, and one that has returned has scanned every line of its    *)
(* text.                                                                   *)
(***************************************************************************)
C8_ScansEveryLine ==
    \A p \in DOMAIN frames :
        /\ frames[p].pc # "raised"
        /\ Returned(p) => frames[p].scanned = Len(GivenLines(p))

(***************************************************************************)
(* C8 as amended: each extractor scans the lines once, in order,           *)
(* terminates and returns a result, and none reaches an error state; the   *)
(* two parsers scan every line, a harvester scans every line unless it     *)
(* stops at an end-condition line, which is then the last line it scans.   *)
(* Here: always, no invocation is in the error state, one that has not    *)
(* returned has a next step, none has scanned more lines than its text     *)
(* has, a parser that has returned has scanned every line, and a harvester *)
(* that has returned has scanned every line or has just scanned an         *)
(* end-condition line; and every step reads the next line or leaves the    *)
(* loop, so that it lowers what is left to do.                             *)
(***************************************************************************)
\* the end condition of each harvester, on the trimmed line
EndLine(fn, line) ==
    IF fn = "_extract_acceptance_criteria"
    THEN startswith(strip(line), "#") \/ startswith(strip(line), "**")
    ELSE strip(line) # "" /\ ~\E c \in Chars(strip(line)) : isalnum(c)

\* invocation p has a next step
CanStep(p) ==
    frames[p].pc = "entry" \/ InLoop(frames[p]) \/ LoopOver(frames[p])

\* the steps invocation p has left at most
Remaining(p) ==
    CASE frames[p].pc = "entry" -> Len(GivenLines(p)) + 2
      [] frames[p].pc \in {"loop", "break"} ->
            Len(GivenLines(p)) - frames[p].scanned + 1
      [] OTHER -> 0

RemainingAfter(p) ==
    CASE frames'[p].pc = "entry" -> Len(GivenLines(p)) + 2
      [] frames'[p].pc \in {"loop", "break"} ->
            Len(GivenLines(p)) - frames'[p].scanned + 1
      [] OTHER -> 0

ScansInOrder ==
    \A p \in DOMAIN frames :
        /\ frames[p].pc # "raised"
        /\ ~Returned(p) => CanStep(p)
        /\ frames[p].pc # "entry" =>
              /\ frames[p].lines = GivenLines(p)
              /\ frames[p].scanned <= Len(GivenLines(p))
        /\ (Returned(p) /\ frames[p].fn \in Parsers) =>
              frames[p].scanned = Len(GivenLines(p))
        /\ (Returned(p) /\ frames[p].fn \in Harvesters) =>
              \/ frames[p].scanned = Len(GivenLines(p))
              \/ /\ frames[p].scanned >= 1
                 /\ EndLine(frames[p].fn, LastLine(p))

OneLineAtATime ==
    \A p \in DOMAIN frames :
        /\ RemainingAfter(p) < Remaining(p)
        /\ frames[p].pc = "loop" =>
              \/ frames'[p].scanned = frames[p].scanned + 1
              \/ frames'[p].pc = "returned" /\ frames'[p].scanned = frames[p].scanned

C8_ScansInOrderAndReturns == []ScansInOrder /\ [][OneLineAtATime]_vars

\* a harvester has returned after an empty line inside its zone, which its
\* item test slices, and after stopping before the last line of its text
C8_Witness ==
    \E p \in DOMAIN frames :
        /\ Returned(p)
        /\ frames[p].fn \in Harvesters
        /\ frames[p].scanned = 3
        /\ Len(GivenLines(p)) = 4
        /\ GivenLines(p)[1] = "Acceptance Criteria:"
        /\ GivenLines(p)[2] = ""

(***************************************************************************)
(* C11: every file entry in the result of _parse_code_response or          *)
(* _parse_test_response has a non-empty path, for every input, a           *)
(* '### File:' header line with nothing after the marker included.         *)
(***************************************************************************)
C11_PathNeverEmpty ==
    \A p \in DOMAIN frames :
        Scanning(p) =>
            \A i \in 1..Len(FilesOf(frames[p])) :
                /\ FilesOf(frames[p])[i].path # ""
                /\ FilesOf(frames[p])[i].path # None

\* a parser has returned a file entry from a text that holds, after that
\* file's content, a file header with nothing after the marker
C11_Witness ==
    \E p \in DOMAIN frames :
        /\ frames[p].fn \in Parsers
        /\ Returned(p)
        /\ Len(GivenLines(p)) = 4
        /\ IsFileHeaderLine(GivenLines(p)[2])
        /\ GivenLines(p)[4] = "### File:"
        /\ Len(FilesOf(frames[p])) = 1

(***************************************************************************)
(* Sections of a text, read off the text alone.                            *)
(***************************************************************************)
\* the tag of the header line
TagOf(fn, line) == HeaderTable(fn)[CHOOSE t \in MatchingTokens(fn, line) : TRUE]

\* the non-header lines of ls, from the k-th on, read while section is
\* current, in order, where current is the section current at the k-th line
RECURSIVE LinesOfFrom(_, _, _, _, _)
LinesOfFrom(fn, ls, section, k, current) ==
    IF k > Len(ls) THEN <<>>
    ELSE IF IsHeaderLine(fn, ls[k])
    THEN LinesOfFrom(fn, ls, section, k + 1, TagOf(fn, ls[k]))
    ELSE (IF current = section THEN <<ls[k]>> ELSE <<>>)
         \o LinesOfFrom(fn, ls, section, k + 1, current)

LinesOf(fn, ls, section) == LinesOfFrom(fn, ls, section, 1, "none")

\* a bulleted or numbered line, and its text without the list marker
IsListLine(line) ==
    \/ startswith(strip(line), "-") \/ startswith(strip(line), "*")
    \/ startswith(strip(line), Bullet)
    \/ (strip(line) # "" /\ isdigit(Char(strip(line), 1)))

ItemText(line) == lstripChars(strip(line), ItemPrefixChars)

\* the item texts of the list lines of ls, in order
RECURSIVE ItemTexts(_)
ItemTexts(ls) ==
    IF ls = <<>> THEN <<>>
    ELSE (IF IsListLine(Head(ls)) THEN <<ItemText(Head(ls))>> ELSE <<>>)
         \o ItemTexts(Tail(ls))

\* a occurs in b, in order
RECURSIVE IsSubSeq(_, _)
IsSubSeq(a, b) ==
    IF a = <<>> THEN TRUE
    ELSE IF b = <<>> THEN FALSE
    ELSE IF Head(a) = Head(b) THEN IsSubSeq(Tail(a), Tail(b))
    ELSE IsSubSeq(a, Tail(b))

(***************************************************************************)
(* C12: every bulleted or numbered line of the Dependencies section is     *)
(* returned as one entry of result['dependencies'], in source order, with  *)
(* its list marker stripped (the line '- pyyaml' yields the entry          *)
(* 'pyyaml').  Here: the item texts of the list lines of the section occur *)
(* in the returned dependencies, in order.                                 *)
(***************************************************************************)
C12_DependencyMarkersStripped ==
    \A p \in DOMAIN frames :
        (frames[p].fn \in Parsers /\ Returned(p)) =>
            IsSubSeq(ItemTexts(LinesOf(frames[p].fn, GivenLines(p),
                                       "dependencies")),
                     DependenciesOf(frames[p]))

(***************************************************************************)
(* Zones of a description, read off the description and the harvester's    *)
(* position.                                                               *)
(***************************************************************************)
\* the lines that follow the trigger line of the description of p
ZoneOf(p) == given[p].src.zone

\* the items a harvester has collected, and whether its zone is open
ItemsOf(f) ==
    IF f.fn = "_extract_acceptance_criteria" THEN f.criteria ELSE f.requirements

ZoneOpen(f) ==
    IF f.fn = "_extract_acceptance_criteria"
    THEN f.in_acceptance_section ELSE f.in_requirements

\* the trimmed form of line starts with '-', '*' or the bullet glyph, or its
\* first two characters with any '.' removed are all digits
IsHarvestLine(line) ==
    \/ startswith(strip(line), "-") \/ startswith(strip(line), "*")
    \/ startswith(strip(line), Bullet)
    \/ isdigit(replace(StrSlice(strip(line), 0, 2), ".", ""))

\* the step from frames to frames' is an iteration of the loop of harvester
\* p inside its open zone
ZoneStep(p) ==
    /\ frames[p].fn \in Harvesters
    /\ LineStep(p)
    /\ ZoneOpen(frames[p])

(***************************************************************************)
(* C13: bulleted items ('- x', '* x', the bullet glyph) and numbered items *)
(* ('1. x', '12. x') that follow a trigger line are returned by both       *)
(* harvesters in order of appearance, each with all leading bullet, digit, *)
(* '.' and space characters stripped from the left.  Here: when every line *)
(* after the trigger line is a bulleted or numbered item and none is an    *)
(* end-condition line, the harvester returns their item texts, in order.   *)
(***************************************************************************)
C13_ItemsReturnedStripped ==
    \A p \in DOMAIN frames :
        (frames[p].fn \in Harvesters /\ Returned(p)
            /\ \A k \in 1..Len(ZoneOf(p)) :
                  /\ IsListLine(ZoneOf(p)[k])
                  /\ ~EndLine(frames[p].fn, ZoneOf(p)[k])) =>
            ItemsOf(frames[p]) = ItemTexts(ZoneOf(p))

(***************************************************************************)
(* C14: in _extract_requirements_from_content, once the zone is open,      *)
(* every non-empty line that contains no alphanumeric character terminates *)
(* the zone: that line yields no item and no bullet or numbered line after *)
(* it is collected.  Here: the returned items are no more than the list    *)
(* lines that precede the first such line.                                 *)
(***************************************************************************)
Separators(ls) ==
    {k \in 1..Len(ls) : EndLine("_extract_requirements_from_content", ls[k])}

C14_SeparatorEndsZone ==
    \A p \in DOMAIN frames :
        (frames[p].fn = "_extract_requirements_from_content" /\ Returned(p)
            /\ Separators(ZoneOf(p)) # {}) =>
            LET first == CHOOSE k \in Separators(ZoneOf(p)) :
                             \A j \in Separators(ZoneOf(p)) : k <= j
            IN  Len(ItemsOf(frames[p])) <=
                    Cardinality({j \in 1..(first - 1) : IsListLine(ZoneOf(p)[j])})

(***************************************************************************)
(* C15: inside an open harvester zone, in both variants, every line whose  *)
(* trimmed form starts with '-', '*' or the bullet glyph, or whose first   *)
(* two characters with any '.' removed are all digits, is harvested as     *)
(* exactly one item.  Here: the step that reads such a line, end-condition *)
(* lines left aside, appends exactly one item.                             *)
(***************************************************************************)
C15_HarvestLineYieldsOneItem ==
    [][\A p \in DOMAIN frames :
          (ZoneStep(p) /\ IsHarvestLine(StepLine(p))
              /\ ~EndLine(frames[p].fn, StepLine(p))) =>
              Len(ItemsOf(frames'[p])) = Len(ItemsOf(frames[p])) + 1]_vars

TriggerPhrases(fn) ==
    IF fn = "_extract_acceptance_criteria" THEN {"acceptance criteria"}
    ELSE {"requirements", "acceptance criteria", "should", "must"}

IsTriggerLine(fn, line) ==
    \E phrase \in TriggerPhrases(fn) : contains(lower(strip(line)), phrase)

\* the iteration that reads line in state f harvests it
Harvests(f, line) ==
    /\ ZoneOpen(f)
    /\ ~IsTriggerLine(f.fn, line)
    /\ IsHarvestLine(line)
    /\ f.fn = "_extract_acceptance_criteria" => ~EndLine(f.fn, line)

C17_AppendOnly ==
    [][\A p \in DOMAIN frames :
          frames[p].fn \in Harvesters =>
              IF frames[p].pc = "entry" THEN ItemsOf(frames'[p]) = <<>>
              ELSE IF LineStep(p) /\ Harvests(frames[p], StepLine(p))
              THEN ItemsOf(frames'[p]) =
                       Append(ItemsOf(frames[p]), ItemText(StepLine(p)))
              ELSE ItemsOf(frames'[p]) = ItemsOf(frames[p])]_vars

\* a harvester has returned the same item text three times, from three
\* lines
C17_Witness ==
    \E p \in DOMAIN frames :
        /\ frames[p].fn \in Harvesters
        /\ Returned(p)
        /\ ZoneOf(p) = <<"- x", "  * x", "1. x">>
        /\ ItemsOf(frames[p]) = <<"x", "x", "x">>

(***************************************************************************)
(* C18: the prose string of each prose section (analysis, notes; strategy, *)
(* run_instructions) equals the concatenation, in input order, of every    *)
(* non-header line scanned while that section was current, each followed   *)
(* by a newline; when a section header occurs several times the later      *)
(* lines are appended to the same buffer.                                  *)
(***************************************************************************)
\* the tags of the two prose sections of each variant, in the order of
\* ProseOf
ProseSections(fn) ==
    IF fn = "_parse_code_response" THEN <<"analysis", "notes">>
    ELSE <<"strategy", "instructions">>

\* the lines of ls, each followed by a newline
RECURSIVE WithNewlines(_)
WithNewlines(ls) ==
    IF ls = <<>> THEN "" ELSE Head(ls) \o "\n" \o WithNewlines(Tail(ls))

C18_ProseIsSectionLines ==
    \A p \in DOMAIN frames :
        (frames[p].fn \in Parsers /\ Returned(p)) =>
            \A i \in 1..2 :
                ProseOf(frames[p])[i] =
                    WithNewlines(LinesOf(frames[p].fn, GivenLines(p),
                                         ProseSections(frames[p].fn)[i]))

\* the code parser has returned an analysis made of the lines that follow
\* the two occurrences of the Analysis header
C18_Witness ==
    \E p \in DOMAIN frames :
        /\ frames[p].fn = "_parse_code_response"
        /\ Returned(p)
        /\ GivenLines(p) = <<"## Analysis", " - x ", "## Analysis", "">>
        /\ frames[p].result.analysis = " - x \n\n"

(***************************************************************************)
(* C19: parse invocations share no mutable state: when two parses, of the  *)
(* same or of different inputs, on the same generator object, are run in   *)
(* any interleaving of their line steps, each returns the result it        *)
(* returns when run alone, and repeating a parse on the same input returns *)
(* an equal result.                                                        *)
(***************************************************************************)
C19_NoSharedState ==
    /\ \A p \in DOMAIN frames :
          Returned(p) =>
              frames[p].result = Alone(frames[p].fn, join("\n", GivenLines(p)))
    /\ \A p, q \in DOMAIN frames :
          (Returned(p) /\ Returned(q) /\ frames[p].fn = frames[q].fn
              /\ GivenLines(p) = GivenLines(q)) =>
              frames[p].result = frames[q].result

\* the second parse has returned its analysis while the first, of another
\* text, is in the middle of its lines
C19_Witness ==
    /\ Len(frames) = 2
    /\ frames[1].pc = "loop" /\ frames[1].scanned = 1
    /\ GivenLines(1) = <<"## Analysis", "## Test Strategy">>
    /\ Returned(2)
    /\ frames[2].fn = "_parse_code_response"
    /\ GivenLines(2) = <<"## Analysis", " x ">>
    /\ frames[2].result.analysis = " x \n"

(***************************************************************************)
(* C20: _detect_language_from_path returns, for a path whose extension is  *)
(* a key of the fixed lookup table, the kind the table associates with     *)
(* that extension, for every key of the table, and returns 'text' for      *)
(* every other path.  Here 'every other path' is read as every path whose  *)
(* extension is no key of the table in any case of its letters.            *)
(***************************************************************************)
C20_KindOfExtension ==
    \A p \in DOMAIN frames :
        (frames[p].fn = "_detect_language_from_path" /\ Returned(p)) =>
            LET ext == splitext(frames[p].file_path)
            IN  /\ ext \in DOMAIN extension_map =>
                      frames[p].result = extension_map[ext]
                /\ (\A key \in DOMAIN extension_map : lower(key) # lower(ext)) =>
                      frames[p].result = "text"

(***************************************************************************)
(* C21: Config construction fails with ValueError 'Please set a valid      *)
(* value for <field>' whenever a required field is empty or starts with    *)
(* 'your-', and with ValueError 'Missing required configuration field'     *)
(* when a required field is absent; a Config object exists only when all   *)
(* five required fields are present and valid.  Here, for a file that      *)
(* exists: when some required field is absent, empty or a placeholder the  *)
(* construction ends in a ValueError whose message is the one of such a    *)
(* field; and it returns only if every required field holds a value.       *)
(***************************************************************************)
\* the required field is absent from the file / is empty or a placeholder
FieldAbsent(src, field) ==
    \/ src.empty
    \/ src.shape[split(field, ".")[1]] # "dict"
    \/ src.choice[field] = "absent"

FieldUnset(src, field) ==
    ~FieldAbsent(src, field) /\ src.choice[field] \in {"empty", "null", "placeholder"}

\* the construction has ended
ConfigDone(p) ==
    frames[p].fn = "Config.__init__" /\ frames[p].pc \in {"raised", "returned"}

C21_ConfigValidation ==
    \A p \in DOMAIN frames :
        (ConfigDone(p) /\ given[p].src.exists) =>
            LET src == given[p].src
                fields == {required_fields[i] : i \in 1..Len(required_fields)}
            IN  /\ (\E field \in fields :
                        FieldAbsent(src, field) \/ FieldUnset(src, field)) =>
                      /\ frames[p].pc = "raised"
                      /\ frames[p].exception.class = "ValueError"
                      /\ \E field \in fields :
                            \/ /\ FieldAbsent(src, field)
                               /\ frames[p].exception.value =
                                     "Missing required configuration field: " \o field
                            \/ /\ FieldUnset(src, field)
                               /\ frames[p].exception.value =
                                     "Please set a valid value for " \o field
                /\ frames[p].pc = "returned" =>
                      \A field \in fields :
                          ~FieldAbsent(src, field) /\ src.choice[field] = "value"

(***************************************************************************)
(* C22: a file's content ends at the next trigger: once a section header   *)
(* line follows a file's body, no later line of the input is added to that *)
(* file's content, whatever sections and lines come afterwards, a later    *)
(* re-opening of the Files section included.  Here: when a section header  *)
(* has been scanned since the last file header, a step that reads no file  *)
(* header leaves the content of the file in progress as it is.             *)
(***************************************************************************)
\* the last file header line p has scanned, 0 if none
LastFileHeader(p) ==
    LET hs == {j \in 1..frames[p].scanned : IsFileHeaderLine(GivenLines(p)[j])}
    IN  IF hs = {} THEN 0 ELSE CHOOSE j \in hs : \A i \in hs : i <= j

\* a section header has been scanned after the header of the file in progress
HeaderSinceFile(p) ==
    /\ Truthy(frames[p].current_file)
    /\ \E j \in (LastFileHeader(p) + 1)..frames[p].scanned :
          IsHeaderLine(frames[p].fn, GivenLines(p)[j])

C22_ContentEndsAtSectionHeader ==
    [][\A p \in DOMAIN frames :
          (Scanning(p) /\ LineStep(p) /\ HeaderSinceFile(p)
              /\ ~IsFileHeaderLine(StepLine(p))) =>
              frames'[p].current_content = frames[p].current_content]_vars

(***************************************************************************)
(* C23: while a file is in progress in the Files section, a line that is   *)
(* neither a section header, a file header nor a fence line is appended to *)
(* the content as it was read: its leading and trailing whitespace is      *)
(* preserved, and a blank line is appended like any other.                 *)
(***************************************************************************)
\* a file is in progress in the Files section of invocation p
FileInProgress(p) ==
    /\ frames[p].current_section = "files"
    /\ Truthy(frames[p].current_file)

\* a line that is neither a section header, a file header nor a fence line
IsContentLine(fn, line) ==
    /\ ~IsHeaderLine(fn, line)
    /\ ~IsFileHeaderLine(line)
    /\ ~IsFenceLine(line)

C23_ContentLinesAppendedRaw ==
    [][\A p \in DOMAIN frames :
          (Scanning(p) /\ LineStep(p) /\ FileInProgress(p)
              /\ IsContentLine(frames[p].fn, StepLine(p))) =>
              /\ frames'[p].current_content =
                     Append(frames[p].current_content, StepLine(p))
              /\ frames'[p].current_file = frames[p].current_file
              /\ FilesOf(frames'[p]) = FilesOf(frames[p])]_vars

\* a parse of the test response has returned a file whose content keeps the
\* spaces around " - x " and the blank line after it
C23_Witness ==
    \E p \in DOMAIN frames :
        /\ frames[p].fn = "_parse_test_response"
        /\ Returned(p)
        /\ Len(GivenLines(p)) = 4
        /\ GivenLines(p)[3] = " - x " /\ GivenLines(p)[4] = ""
        /\ \E i \in DOMAIN FilesOf(frames[p]) :
              FilesOf(frames[p])[i].content = " - x \n"

(***************************************************************************)
(* C24: the file extractor acts only while the current section is Files.   *)
(* The current section is the one named by the last section header line    *)
(* scanned (none before the first).  A '### File:' line or a fence line    *)
(* scanned while that section is not Files starts no file, finalizes no    *)
(* file and changes no file's content: the path in progress, the collected *)
(* content and the file list stay as they are.                             *)
(***************************************************************************)
\* the section named by the last section header among the first k lines
RECURSIVE SectionAfter(_, _, _)
SectionAfter(fn, ls, k) ==
    IF k = 0 THEN "none"
    ELSE IF IsHeaderLine(fn, ls[k]) THEN TagOf(fn, ls[k])
    ELSE SectionAfter(fn, ls, k - 1)

\* the section that is current when p reads its next line
SectionNow(p) == SectionAfter(frames[p].fn, GivenLines(p), frames[p].scanned)

\* the step leaves p's file in progress and p's file list as they are
FileStateUnchanged(p) ==
    /\ frames'[p].current_file = frames[p].current_file
    /\ frames'[p].current_content = frames[p].current_content
    /\ FilesOf(frames'[p]) = FilesOf(frames[p])

C24_FileExtractorOnlyInFiles ==
    [][\A p \in DOMAIN frames :
          (Scanning(p) /\ LineStep(p) /\ SectionNow(p) # "files"
              /\ ~IsHeaderLine(frames[p].fn, StepLine(p))
              /\ (IsFileHeaderLine(StepLine(p)) \/ IsFenceLine(StepLine(p)))) =>
              FileStateUnchanged(p)]_vars

\* a parse of the test response has read a '### File:' line and a fence line
\* outside the Files section and returned no file
C24_Witness ==
    \E p \in DOMAIN frames :
        /\ frames[p].fn = "_parse_test_response"
        /\ Returned(p)
        /\ Len(GivenLines(p)) = 3
        /\ IsFileHeaderLine(GivenLines(p)[1])
        /\ IsFenceLine(GivenLines(p)[2])
        /\ SectionAfter(frames[p].fn, GivenLines(p), 3) # "files"
        /\ FilesOf(frames[p]) = <<>>

(***************************************************************************)
(* C28: exactly one section is current at every step of the scan, and it   *)
(* changes only on section header lines.  At every step current_section is *)
(* the section named by the last section header line scanned, None before  *)
(* the first; a line that matches no section header leaves current_section *)
(* unchanged; and a line scanned while the current section is not Files    *)
(* leaves the path and the content of the file in progress and the file    *)
(* list unchanged.                                                         *)
(***************************************************************************)
\* current_section of p is the one section the scanned lines make current
OneSectionCurrent(p) ==
    frames[p].current_section =
        (IF SectionNow(p) = "none" THEN None ELSE SectionNow(p))

\* the step keeps current_section unless it reads a section header, and
\* keeps the file state when it reads a line outside the Files section
SectionStep(p) ==
    (Scanning(p) /\ LineStep(p)) =>
        /\ ~IsHeaderLine(frames[p].fn, StepLine(p)) =>
               frames'[p].current_section = frames[p].current_section
        /\ frames[p].current_section # "files" => FileStateUnchanged(p)

C28_OneCurrentSection ==
    /\ [](\A p \in DOMAIN frames : Scanning(p) => OneSectionCurrent(p))
    /\ [][\A p \in DOMAIN frames : SectionStep(p)]_vars

\* a parse of the generation response has opened a file, left the Files
\* section, read two more lines there and returned that file with no content
\* from them
C28_Witness ==
    \E p \in DOMAIN frames :
        /\ frames[p].fn = "_parse_code_response"
        /\ Returned(p)
        /\ Len(GivenLines(p)) = 4
        /\ SectionAfter(frames[p].fn, GivenLines(p), 1) = "files"
        /\ IsFileHeaderLine(GivenLines(p)[2])
        /\ ~IsHeaderLine(frames[p].fn, GivenLines(p)[3])
        /\ ~IsFileHeaderLine(GivenLines(p)[3])
        /\ ~IsFenceLine(GivenLines(p)[3])
        /\ IsHeaderLine(frames[p].fn, GivenLines(p)[4])
        /\ SectionAfter(frames[p].fn, GivenLines(p), 4) # "files"
        /\ Len(FilesOf(frames[p])) = 1

(***************************************************************************)
(* C25: in _extract_acceptance_criteria, once the zone is open, every line *)
(* whose trimmed form starts with '#' or with '**' ends the zone: the line *)
(* yields no item, the loop is left, and no later step adds an item.       *)
(***************************************************************************)
\* p is an invocation of _extract_acceptance_criteria
IsCriteria(p) == frames[p].fn = "_extract_acceptance_criteria"

\* the steps p takes after it has left the loop add no item and read no line
NothingAfterBreak(p) ==
    frames[p].pc = "break" =>
        /\ ItemsOf(frames'[p]) = ItemsOf(frames[p])
        /\ frames'[p].scanned = frames[p].scanned
        /\ frames'[p].pc = "returned"

C25_HeadingEndsZone ==
    [][\A p \in DOMAIN frames :
          IsCriteria(p) =>
              /\ (ZoneStep(p) /\ EndLine(frames[p].fn, StepLine(p))) =>
                     /\ ItemsOf(frames'[p]) = ItemsOf(frames[p])
                     /\ frames'[p].pc = "break"
              /\ NothingAfterBreak(p)]_vars

(***************************************************************************)
(* C25 as amended: in _extract_acceptance_criteria, once the zone is open, *)
(* every line whose trimmed form starts with '#' or with '**' and that     *)
(* does not hold the phrase 'acceptance criteria' ends the zone: the line  *)
(* yields no item, the loop is left, and no later step adds an item.  A    *)
(* heading or bold line that holds the phrase is a trigger line: it yields *)
(* no item and the zone stays open.                                        *)
(***************************************************************************)
C25_OtherHeadingEndsZone ==
    [][\A p \in DOMAIN frames :
          IsCriteria(p) =>
              /\ (ZoneStep(p) /\ EndLine(frames[p].fn, StepLine(p))) =>
                     IF IsTriggerLine(frames[p].fn, StepLine(p))
                     THEN frames'[p] = [frames[p] EXCEPT !.scanned = @ + 1]
                     ELSE /\ ItemsOf(frames'[p]) = ItemsOf(frames[p])
                          /\ frames'[p].pc = "break"
              /\ NothingAfterBreak(p)]_vars

\* the acceptance criteria harvester has returned the item before a heading
\* and not the item after it
C25_Witness ==
    \E p \in DOMAIN frames :
        /\ IsCriteria(p)
        /\ Returned(p)
        /\ ZoneOf(p) = <<"- x", "# Notes", "1. x">>
        /\ ItemsOf(frames[p]) = <<"x">>

(***************************************************************************)
(* C26: no item is harvested before the first trigger line (a line that    *)
(* contains, case-insensitively, 'acceptance criteria'; in the             *)
(* requirements variant also 'requirements', 'should' or 'must'); an input *)
(* without any trigger line yields an empty list; and the line that opens  *)
(* the zone is itself not harvested.  Here: while no trigger line has been *)
(* scanned the zone is closed and the item list is empty, and the step     *)
(* that reads a trigger line changes nothing but the position and the zone *)
(* flag, which it sets.                                                    *)
(***************************************************************************)
\* a trigger line is among the first k lines of ls
TriggerAmong(fn, ls, k) == \E j \in 1..k : IsTriggerLine(fn, ls[j])

\* p has started and has scanned no trigger line yet
BeforeFirstTrigger(p) ==
    /\ frames[p].fn \in Harvesters
    /\ frames[p].pc # "entry"
    /\ ~TriggerAmong(frames[p].fn, GivenLines(p), frames[p].scanned)

\* frame f with its zone flag set
WithZoneOpen(f) ==
    IF f.fn = "_extract_acceptance_criteria"
    THEN [f EXCEPT !.in_acceptance_section = TRUE]
    ELSE [f EXCEPT !.in_requirements = TRUE]

C26_NothingBeforeTrigger ==
    /\ [](\A p \in DOMAIN frames :
             BeforeFirstTrigger(p) =>
                 ItemsOf(frames[p]) = <<>> /\ ~ZoneOpen(frames[p]))
    /\ [][\A p \in DOMAIN frames :
             (frames[p].fn \in Harvesters /\ LineStep(p)
                 /\ IsTriggerLine(frames[p].fn, StepLine(p))) =>
                 frames'[p] = WithZoneOpen([frames[p] EXCEPT !.scanned = @ + 1])]_vars

\* the acceptance criteria harvester has returned the item after the trigger
\* line, and neither the item before it nor the trigger line, which is
\* bulleted
C26_Witness ==
    \E p \in DOMAIN frames :
        /\ IsCriteria(p)
        /\ Returned(p)
        /\ GivenLines(p) = <<"- x", "- Acceptance criteria", "1. y">>
        /\ ItemsOf(frames[p]) = <<"y">>

(***************************************************************************)
(* C27: the path of a file artifact is the verbatim text that follows the  *)
(* '### File:' marker on its header line, with surrounding whitespace      *)
(* trimmed and nothing else removed.  Here: a response made of the Files   *)
(* header, one file header line and one content line returns one file,     *)
(* whose path is the trimmed text after the marker of the header line.     *)
(***************************************************************************)
\* the text that follows the marker on the file header line, trimmed
TextAfterMarker(line) == strip(From(strip(line), Len(FileMarker) + 1))

C27_PathIsTextAfterMarker ==
    \A p \in DOMAIN frames :
        (frames[p].fn \in Parsers /\ Returned(p)) =>
            /\ Len(FilesOf(frames[p])) = 1
            /\ FilesOf(frames[p])[1].path = TextAfterMarker(GivenLines(p)[2])

(***************************************************************************)
(* C29: _parse_test_response is the same state machine as                  *)
(* _parse_code_response under the renaming '## Test Strategy' ~            *)
(* '## Analysis', '## Test Files' ~ '## Files to Create/Modify',           *)
(* '## Running the Tests' ~ '## Implementation Notes',                     *)
(* '## Test Dependencies' ~ '## Dependencies': on inputs that differ only  *)
(* by that renaming of header lines, test_files = files, strategy =        *)
(* analysis, run_instructions = notes and dependencies = dependencies.     *)
(* Here: the result a parser returns on a text equals, field by field, the *)
(* result of the other parser on the text whose header lines are renamed.  *)
(***************************************************************************)
OtherParser(fn) ==
    IF fn = "_parse_code_response"
    THEN "_parse_test_response" ELSE "_parse_code_response"

\* the section of the other parser that a section of fn is renamed to
RenamedTag(fn, tag) ==
    IF fn = "_parse_code_response"
    THEN CASE tag = "analysis" -> "strategy"
           [] tag = "files" -> "files"
           [] tag = "notes" -> "instructions"
           [] tag = "dependencies" -> "dependencies"
    ELSE CASE tag = "strategy" -> "analysis"
           [] tag = "files" -> "files"
           [] tag = "instructions" -> "notes"
           [] tag = "dependencies" -> "dependencies"

\* the header token of the other parser that the header line of fn is
\* renamed to
RenamedToken(fn, line) ==
    CHOOSE t \in DOMAIN HeaderTable(OtherParser(fn)) :
        HeaderTable(OtherParser(fn))[t] = RenamedTag(fn, TagOf(fn, line))

\* the line with the header token of fn replaced by the other parser's
RenameLine(fn, line) ==
    IF ~IsHeaderLine(fn, line) THEN line
    ELSE LET t == CHOOSE u \in MatchingTokens(fn, line) : TRUE
             k == find(line, t, 1)
         IN  Slice(line, 1, k - 1) \o RenamedToken(fn, line)
             \o From(line, k + Len(t))

RenameText(fn, ls) == [i \in 1..Len(ls) |-> RenameLine(fn, ls[i])]

\* the result r of fn and the result o of the other parser agree under the
\* renaming of the fields
SameResults(fn, r, o) ==
    IF fn = "_parse_code_response"
    THEN /\ r.files = o.test_files
         /\ r.analysis = o.strategy
         /\ r.notes = o.run_instructions
         /\ r.dependencies = o.dependencies
    ELSE /\ r.test_files = o.files
         /\ r.strategy = o.analysis
         /\ r.run_instructions = o.notes
         /\ r.dependencies = o.dependencies

\* the result of p agrees with the other parser's on the renamed text
AgreesUnderRenaming(p) ==
    SameResults(frames[p].fn, frames[p].result,
                Alone(OtherParser(frames[p].fn),
                      join("\n", RenameText(frames[p].fn, GivenLines(p)))))

C29_SameUnderRenaming ==
    \A p \in DOMAIN frames :
        (frames[p].fn \in Parsers /\ Returned(p)) => AgreesUnderRenaming(p)

(***************************************************************************)
(* C29 as amended: on inputs that differ only by that renaming of header   *)
(* lines and in which no line is a section header of the other parser      *)
(* (no line of a test response starts, once trimmed, with '## Analysis',   *)
(* '## Files to Create/Modify', '## Implementation Notes' or               *)
(* '## Dependencies', and the other way round), test_files = files,        *)
(* strategy = analysis, run_instructions = notes and dependencies =        *)
(* dependencies.                                                           *)
(***************************************************************************)
\* no line of ls is a section header of the parser other than fn
NoForeignHeader(fn, ls) ==
    \A i \in 1..Len(ls) : ~IsHeaderLine(OtherParser(fn), ls[i])

C29_SameUnderRenamingOwnHeaders ==
    \A p \in DOMAIN frames :
        (frames[p].fn \in Parsers /\ Returned(p)
            /\ NoForeignHeader(frames[p].fn, GivenLines(p))) =>
            AgreesUnderRenaming(p)

\* the test parser has returned a file from a text with two of its headers
C29_Witness ==
    \E p \in DOMAIN frames :
        /\ frames[p].fn = "_parse_test_response"
        /\ Returned(p)
        /\ GivenLines(p) = <<" ## Test Files", "### File: src/a.py", " - x ",
                             "## Test Dependencies">>
        /\ RenameText(frames[p].fn, GivenLines(p)) =
               <<" ## Files to Create/Modify", "### File: src/a.py", " - x ",
                 "## Dependencies">>
        /\ Len(frames[p].result.test_files) = 1

(***************************************************************************)
(* C30: result['dependencies'] is exactly the list, in input order, of the *)
(* trimmed forms of the lines scanned while the current section is         *)
(* Dependencies that are non-blank and do not start with '#' once trimmed; *)
(* blank lines and lines starting with '#' in that section add no entry,   *)
(* and no entry is empty or has leading or trailing whitespace.  Here: at  *)
(* every step of the scan and at the return, the dependencies are the      *)
(* entries of the Dependencies lines among the lines scanned so far.       *)
(***************************************************************************)
\* the line makes an entry: it is not blank and its trimmed form does not
\* start with '#'
IsDependencyLine(line) == strip(line) # "" /\ ~startswith(strip(line), "#")

\* the trimmed forms of the lines of ls that make an entry, in order
RECURSIVE DependencyEntries(_)
DependencyEntries(ls) ==
    IF ls = <<>> THEN <<>>
    ELSE (IF IsDependencyLine(Head(ls)) THEN <<strip(Head(ls))>> ELSE <<>>)
         \o DependencyEntries(Tail(ls))

\* the lines p has scanned so far
ScannedLines(p) == SubSeq(GivenLines(p), 1, frames[p].scanned)

C30_DependenciesAreSectionLines ==
    \A p \in DOMAIN frames :
        Scanning(p) =>
            /\ DependenciesOf(frames[p]) =
                   DependencyEntries(LinesOf(frames[p].fn, ScannedLines(p),
                                             "dependencies"))
            /\ \A i \in DOMAIN DependenciesOf(frames[p]) :
                   /\ DependenciesOf(frames[p])[i] # ""
                   /\ strip(DependenciesOf(frames[p])[i]) =
                          DependenciesOf(frames[p])[i]

\* the code parser has returned two entries from a Dependencies section
\* that holds an item between spaces, a line starting with '#' and a blank
\* line
C30_Witness ==
    \E p \in DOMAIN frames :
        /\ frames[p].fn = "_parse_code_response"
        /\ Returned(p)
        /\ GivenLines(p) = <<"## Dependencies", " - x ", "### File:", "">>
        /\ DependenciesOf(frames[p]) = <<"- x">>

=============================================================================
